---------------------------- MODULE Spec2Model ----------------------------
(***************************************************************************)
(* A model of the endpoint-scaler controller: the EndpointPolicy           *)
(* reconciler (controller/pkg/controller) and the spec validator           *)
(* (controller/pkg/apis/endpointscaler/v1alpha1).                          *)
(*                                                                         *)
(* The cluster is the API server's store of child objects, keyed by kind   *)
(* and name in the policy's namespace.  A reconciliation pass is a         *)
(* sequence of blocking API calls; every call is one step of the model, so *)
(* that passes can overlap, fail at any call, or be abandoned between two  *)
(* calls.                                                                  *)
(***************************************************************************)
EXTENDS Integers, Sequences, FiniteSets, TLC

(***************************************************************************)
(* Optional (pointer) fields: <<>> is nil, <<v>> is a set value.           *)
(***************************************************************************)
None == <<>>

Some(v) == <<v>>

IsSet(o) == o # <<>>

Val(o) == o[1]

Range(s) == {s[i] : i \in 1..Len(s)}

(***************************************************************************)
(* Decimal formatting of a small natural number (fmt's %d).                *)
(***************************************************************************)
Digit(n) == <<"0", "1", "2", "3", "4", "5", "6", "7", "8", "9">>[n + 1]

RECURSIVE Itoa(_)
Itoa(n) == IF n < 10 THEN Digit(n) ELSE Itoa(n \div 10) \o Digit(n % 10)

(***************************************************************************)
(* Bounds of the model.                                                    *)
(***************************************************************************)
MaxSpecChanges == 1

MaxFaults == 1

(***************************************************************************)
(* Program constants.                                                      *)
(***************************************************************************)
StrategyCanary == "canary"

StrategyPrimary == "primary"

ManagedBy == "endpoint-scaler"

DefaultServicePort == 80

DefaultGRPCPort == 9090

DefaultContainerPort == 8080

DefaultCanaryWeight == 5

DeploymentEnvVar == "MICROAPI_GUARDRAIL"

GuardrailEnvVar == "ENDPOINTSCALER_GUARDRAIL"

Kinds == <<"Deployment", "Service", "HTTPRoute", "GRPCRoute", "HPA">>

KindSet == Range(Kinds)

(***************************************************************************)
(* Naming and labelling (reconciler.go).                                   *)
(***************************************************************************)
endpointResourceName(spec, endpoint) == spec.appRef.name \o "-" \o endpoint.id

endpointServiceName(spec, endpoint) ==
    spec.appRef.name \o "-" \o endpoint.id \o "-svc"

mainServiceName(spec) == spec.appRef.name \o "-svc"

(* A label set that names the policy but not the endpoint. *)
LabelsWithoutEndpoint(policyName, spec, endpoint) ==
    [name      |-> spec.appRef.name,
     component |-> endpoint.id,
     managedBy |-> ManagedBy,
     policy    |-> policyName,
     endpoint  |-> ""]

generateLabels(policyName, spec, endpoint) ==
    [name      |-> spec.appRef.name,
     component |-> endpoint.id,
     managedBy |-> ManagedBy,
     policy    |-> policyName,
     endpoint  |-> endpoint.id]

NoLabels ==
    [name |-> "", component |-> "", managedBy |-> "", policy |-> "",
     endpoint |-> ""]

(***************************************************************************)
(* The list selector of a pass: policy label and managed-by label.         *)
(***************************************************************************)
MatchingLabels(labels, policyName) ==
    labels.policy = policyName /\ labels.managedBy = ManagedBy


(***************************************************************************)
(* Spec validation (validation.go).  A field error is its path, its type   *)
(* and its Error() text; indexes in paths are 0-based as in Go.            *)
(***************************************************************************)
Fmt(n) == IF n < 0 THEN "-" \o Itoa(0 - n) ELSE Itoa(n)

Required(path, detail) ==
    [field |-> path, type |-> "Required",
     text |-> path \o ": Required value: " \o detail]

Invalid(path, value, detail) ==
    [field |-> path, type |-> "Invalid",
     text |-> path \o ": Invalid value: " \o value \o ": " \o detail]

Duplicate(path, value) ==
    [field |-> path, type |-> "Duplicate",
     text |-> path \o ": Duplicate value: \"" \o value \o "\""]

Child(path, name) == path \o "." \o name

Index(path, i) == path \o "[" \o Itoa(i - 1) \o "]"

(***************************************************************************)
(* resource.ParseQuantity accepts the platform's quantity grammar; the     *)
(* model knows it on the sample strings the specs use.                     *)
(***************************************************************************)
ParsesAsQuantity(value) == value \in {"1", "2", "500m", "512Mi", "1Gi"}

validateResourceQuantity(value, path) ==
    IF value = "" THEN <<>>
    ELSE IF ~ParsesAsQuantity(value)
         THEN <<Invalid(path, value, "invalid resource quantity")>>
         ELSE <<>>

validateResources(r, path) ==
    validateResourceQuantity(r.cpuLimit, Child(path, "cpuLimit"))
    \o validateResourceQuantity(r.cpuRequest, Child(path, "cpuRequest"))
    \o validateResourceQuantity(r.memLimit, Child(path, "memLimit"))
    \o validateResourceQuantity(r.memRequest, Child(path, "memRequest"))

validateHPA(h, path) ==
    (IF h.min < 1
     THEN <<Invalid(Child(path, "min"), Fmt(h.min), "must be at least 1")>>
     ELSE <<>>)
    \o (IF h.max < 1
        THEN <<Invalid(Child(path, "max"), Fmt(h.max), "must be at least 1")>>
        ELSE <<>>)
    \o (IF h.max < h.min
        THEN <<Invalid(Child(path, "max"), Fmt(h.max),
                       "must be greater than or equal to min")>>
        ELSE <<>>)
    \o (IF h.cpuTarget = None /\ h.memoryTarget = None
        THEN <<Required(path,
                        "at least one of cpuTarget or memoryTarget is required")>>
        ELSE <<>>)

validateMatch(e, path) ==
    LET epType == IF e.type = "" THEN "http" ELSE e.type
    IN  CASE epType = "http" ->
               IF e.match.path = ""
               THEN <<Required(Child(path, "path"),
                               "path is required for HTTP endpoints")>>
               ELSE <<>>
          [] epType = "grpc" ->
               (IF e.match.service = ""
                THEN <<Required(Child(path, "service"),
                                "service is required for gRPC endpoints")>>
                ELSE <<>>)
               \o (IF e.match.method = ""
                   THEN <<Required(Child(path, "method"),
                                   "method is required for gRPC endpoints")>>
                   ELSE <<>>)
          [] OTHER -> <<>>

validateEndpoint(e, path) ==
    (IF e.id = ""
     THEN <<Required(Child(path, "id"), "endpoint id is required")>>
     ELSE <<>>)
    \o validateMatch(e, Child(path, "match"))
    \o (IF IsSet(e.replicas) /\ Val(e.replicas) < 1
        THEN <<Invalid(Child(path, "replicas"), Fmt(Val(e.replicas)),
                       "must be at least 1")>>
        ELSE <<>>)
    \o (IF IsSet(e.resources)
        THEN validateResources(Val(e.resources), Child(path, "resources"))
        ELSE <<>>)
    \o (IF IsSet(e.hpa)
        THEN validateHPA(Val(e.hpa), Child(path, "hpa"))
        ELSE <<>>)

validateAppRef(a, path) ==
    (IF a.name = ""
     THEN <<Required(Child(path, "name"), "application name is required")>>
     ELSE <<>>)
    \o (IF a.image = ""
        THEN <<Required(Child(path, "image"), "container image is required")>>
        ELSE <<>>)
    \o (IF a.port < 0
        THEN <<Invalid(Child(path, "port"), Fmt(a.port),
                       "must be a positive integer")>>
        ELSE <<>>)
    \o (IF a.containerPort < 0
        THEN <<Invalid(Child(path, "containerPort"), Fmt(a.containerPort),
                       "must be a positive integer")>>
        ELSE <<>>)

validateGatewayRef(g, path) ==
    IF g.name = ""
    THEN <<Required(Child(path, "name"), "gateway name is required")>>
    ELSE <<>>

(* A duplicate check that forgets an id once it has reported it. *)
RECURSIVE validateDuplicatesOnce(_, _, _, _)
validateDuplicatesOnce(endpoints, i, seen, path) ==
    IF i > Len(endpoints) THEN <<>>
    ELSE IF endpoints[i].id \in seen
         THEN <<Duplicate(Child(Index(path, i), "id"), endpoints[i].id)>>
              \o validateDuplicatesOnce(endpoints, i + 1,
                                         seen \ {endpoints[i].id}, path)
         ELSE validateDuplicatesOnce(endpoints, i + 1,
                                     seen \cup {endpoints[i].id}, path)

RECURSIVE validateDuplicates(_, _, _, _)
validateDuplicates(endpoints, i, seen, path) ==
    IF i > Len(endpoints) THEN <<>>
    ELSE (IF endpoints[i].id \in seen
          THEN <<Duplicate(Child(Index(path, i), "id"), endpoints[i].id)>>
          ELSE <<>>)
         \o validateDuplicates(endpoints, i + 1, seen \cup {endpoints[i].id},
                               path)

RECURSIVE validateEach(_, _, _)
validateEach(endpoints, i, path) ==
    IF i > Len(endpoints) THEN <<>>
    ELSE validateEndpoint(endpoints[i], Index(path, i))
         \o validateEach(endpoints, i + 1, path)

validateEndpoints(endpoints, path) ==
    IF Len(endpoints) = 0
    THEN <<Required(path, "at least one endpoint is required")>>
    ELSE validateDuplicates(endpoints, 1, {}, path)
         \o validateEach(endpoints, 1, path)

(* A validation that stops at the first violation it meets. *)
validateFailFast(spec, path) ==
    LET all == validateAppRef(spec.appRef, Child(path, "appRef"))
               \o validateGatewayRef(spec.gatewayRef, Child(path, "gatewayRef"))
               \o validateEndpoints(spec.endpoints, Child(path, "endpoints"))
    IN  IF all = <<>> THEN <<>> ELSE <<all[1]>>

validate(spec, path) ==
    validateAppRef(spec.appRef, Child(path, "appRef"))
    \o validateGatewayRef(spec.gatewayRef, Child(path, "gatewayRef"))
    \o validateEndpoints(spec.endpoints, Child(path, "endpoints"))

(***************************************************************************)
(* ErrorList.ToAggregate drops errors whose text was already seen; the     *)
(* aggregate's Error() is the only text, or "[t1, t2, ...]".               *)
(***************************************************************************)
RECURSIVE ToAggregate(_, _)
ToAggregate(errs, seen) ==
    IF errs = <<>> THEN <<>>
    ELSE IF Head(errs).text \in seen THEN ToAggregate(Tail(errs), seen)
         ELSE <<Head(errs)>>
              \o ToAggregate(Tail(errs), seen \cup {Head(errs).text})

RECURSIVE JoinTexts(_)
JoinTexts(errs) ==
    IF Len(errs) = 1 THEN errs[1].text
    ELSE errs[1].text \o ", " \o JoinTexts(Tail(errs))

AggregateError(agg) ==
    IF agg = <<>> THEN ""
    ELSE IF Len(agg) = 1 THEN agg[1].text
         ELSE "[" \o JoinTexts(agg) \o "]"

Validate(spec) == ToAggregate(validate(spec, "spec"), {})

(***************************************************************************)
(* Resource builders.  An object is [labels, owner, spec]: its labels, the *)
(* policy named by its controller reference, and its spec substructure.    *)
(***************************************************************************)
MaxInt32 == 2147483647

(* A subtraction with its operands exchanged. *)
SubReversed(a, b) == b - a

(***************************************************************************)
(* int32(a - b) for a >= 0: the difference wraps around past MaxInt32.     *)
(***************************************************************************)
Sub32(a, b) ==
    IF b < a - MaxInt32
    THEN ((a - (b + MaxInt32 + 1)) - MaxInt32) - 1
    ELSE a - b

NoResources ==
    [limitsCPU |-> "", limitsMemory |-> "", requestsCPU |-> "",
     requestsMemory |-> ""]

buildResourceRequirements(res) ==
    LET ok(q) == q # "" /\ ParsesAsQuantity(q)
    IN  [limitsCPU      |-> IF ok(res.cpuLimit) THEN res.cpuLimit ELSE "",
         requestsCPU    |-> IF ok(res.cpuRequest) THEN res.cpuRequest
                            ELSE IF ok(res.cpuLimit) /\ res.cpuRequest = ""
                                 THEN res.cpuLimit ELSE "",
         limitsMemory   |-> IF ok(res.memLimit) THEN res.memLimit ELSE "",
         requestsMemory |-> IF ok(res.memRequest) THEN res.memRequest
                            ELSE IF ok(res.memLimit) /\ res.memRequest = ""
                                 THEN res.memLimit ELSE ""]

(* A replica count that lets an explicit replicas value win over the HPA. *)
ReplicasFirst(endpoint) ==
    IF IsSet(endpoint.replicas) THEN Val(endpoint.replicas)
    ELSE IF IsSet(endpoint.hpa) THEN Val(endpoint.hpa).min
         ELSE 1

deploymentReplicas(endpoint) ==
    IF IsSet(endpoint.hpa) THEN Val(endpoint.hpa).min
    ELSE IF IsSet(endpoint.replicas) THEN Val(endpoint.replicas)
         ELSE 1

(***************************************************************************)
(* buildDeployment fails (err # "") when appRef.image is empty.            *)
(***************************************************************************)
buildDeployment(policyName, spec, endpoint) ==
    LET labels == generateLabels(policyName, spec, endpoint)
        containerPort == IF spec.appRef.containerPort = 0
                         THEN DefaultContainerPort
                         ELSE spec.appRef.containerPort
    IN  [err |-> IF spec.appRef.image = "" THEN "appRef.image is required"
                 ELSE "",
         obj |-> [labels |-> labels,
                  owner  |-> policyName,
                  spec   |-> [replicas  |-> deploymentReplicas(endpoint),
                              selector  |-> labels,
                              template  |-> labels,
                              container |->
                                  [name  |-> endpoint.id,
                                   image |-> spec.appRef.image,
                                   port  |-> containerPort,
                                   env   |-> [name  |-> DeploymentEnvVar,
                                              value |-> endpoint.id],
                                   resources |->
                                       IF IsSet(endpoint.resources)
                                       THEN buildResourceRequirements(
                                                Val(endpoint.resources))
                                       ELSE NoResources]]]]

buildService(policyName, spec, endpoint) ==
    LET labels == generateLabels(policyName, spec, endpoint)
    IN  [labels |-> labels,
         owner  |-> policyName,
         spec   |-> [type       |-> "ClusterIP",
                     selector   |-> labels,
                     port       |-> IF spec.appRef.port = 0
                                    THEN DefaultServicePort
                                    ELSE spec.appRef.port,
                     targetPort |-> IF spec.appRef.containerPort = 0
                                    THEN DefaultContainerPort
                                    ELSE spec.appRef.containerPort]]

buildHPA(policyName, spec, endpoint) ==
    LET h == Val(endpoint.hpa)
        metric(name, target) ==
            IF IsSet(target) /\ Val(target) > 0
            THEN <<[name |-> name, type |-> "Utilization",
                    averageUtilization |-> Val(target)]>>
            ELSE <<>>
    IN  [labels |-> generateLabels(policyName, spec, endpoint),
         owner  |-> policyName,
         spec   |-> [scaleTargetRef |-> endpointResourceName(spec, endpoint),
                     minReplicas    |-> h.min,
                     maxReplicas    |-> h.max,
                     metrics        |-> metric("cpu", h.cpuTarget)
                                        \o metric("memory", h.memoryTarget)]]

(***************************************************************************)
(* The route weight calculator: the backend list of a route, given the     *)
(* protocol's default port.                                                *)
(***************************************************************************)
buildBackendRefs(spec, endpoint, defaultPort) ==
    LET mainSvc     == mainServiceName(spec)
        endpointSvc == endpointServiceName(spec, endpoint)
        servicePort == IF spec.appRef.port = 0 THEN defaultPort
                       ELSE spec.appRef.port
        strategy    == IF endpoint.strategy = "" THEN StrategyPrimary
                       ELSE endpoint.strategy
        canaryWeight == IF IsSet(endpoint.canaryWeight)
                        THEN Val(endpoint.canaryWeight)
                        ELSE DefaultCanaryWeight
    IN  IF strategy = StrategyCanary
        THEN <<[name |-> mainSvc, port |-> servicePort,
                weight |-> Sub32(100, canaryWeight)],
               [name |-> endpointSvc, port |-> servicePort,
                weight |-> canaryWeight]>>
        ELSE <<[name |-> endpointSvc, port |-> servicePort, weight |-> 100]>>

buildHTTPBackendRefs(spec, endpoint) ==
    buildBackendRefs(spec, endpoint, DefaultServicePort)

buildGRPCBackendRefs(spec, endpoint) ==
    buildBackendRefs(spec, endpoint, DefaultGRPCPort)

buildHTTPRoute(policyName, spec, endpoint) ==
    [labels |-> generateLabels(policyName, spec, endpoint),
     owner  |-> policyName,
     spec   |-> [parentRef   |-> spec.gatewayRef.name,
                 match       |-> [type |-> "PathPrefix",
                                  value |-> endpoint.match.path],
                 backendRefs |-> buildHTTPBackendRefs(spec, endpoint)]]

buildGRPCRoute(policyName, spec, endpoint) ==
    [labels |-> generateLabels(policyName, spec, endpoint),
     owner  |-> policyName,
     spec   |-> [parentRef   |-> spec.gatewayRef.name,
                 match       |-> [service |-> endpoint.match.service,
                                  method  |-> endpoint.match.method],
                 backendRefs |-> buildGRPCBackendRefs(spec, endpoint)]]

(***************************************************************************)
(* The kind of route reconcileRoute converges for an endpoint.             *)
(***************************************************************************)
routeKind(endpoint) == IF endpoint.type = "grpc" THEN "GRPCRoute" ELSE "HTTPRoute"

(***************************************************************************)
(* The policy specs the model draws from: versions of one policy that      *)
(* differ by an endpoint added or removed, hpa added or dropped, the type  *)
(* switched, the strategy, appRef.name changed, and one that Validate      *)
(* rejects.  Endpoint ids follow the schema's DNS-label pattern.           *)
(***************************************************************************)
Endpoint(id, type, strategy, canaryWeight, hpa) ==
    [id           |-> id,
     type         |-> type,
     match        |-> IF type = "grpc"
                      THEN [path |-> "", service |-> "pkg.Svc", method |-> "Call"]
                      ELSE [path |-> "/" \o id, service |-> "", method |-> ""],
     strategy     |-> strategy,
     canaryWeight |-> canaryWeight,
     resources    |-> None,
     hpa          |-> hpa,
     replicas     |-> None]

PolicySpec(appName, endpoints) ==
    [appRef     |-> [name |-> appName, image |-> "img:v1", port |-> 0,
                     containerPort |-> 0],
     gatewayRef |-> [name |-> "gw"],
     endpoints  |-> endpoints]

EpA == Endpoint("a", "http", "", None, None)

EpAhpa ==
    Endpoint("a", "http", "", None,
             Some([min |-> 2, max |-> 3, cpuTarget |-> Some(70),
                   memoryTarget |-> None]))

EpAgrpc == Endpoint("a", "grpc", StrategyPrimary, None, None)

EpB == Endpoint("a-a", "http", StrategyCanary, Some(10), None)

EpNoPath == [EpA EXCEPT !.match.path = ""]

PolicySpecs ==
    {PolicySpec("a", <<EpA>>),
     PolicySpec("a", <<EpAhpa>>),
     PolicySpec("a", <<EpAgrpc>>),
     PolicySpec("a", <<EpA, EpB>>),
     PolicySpec("a", <<EpB>>),
     PolicySpec("a-a", <<EpA>>),
     PolicySpec("a", <<EpNoPath, EpB>>)}

Policies == {"p"}

Names ==
    UNION {{mainServiceName(s)}
           \cup {endpointResourceName(s, s.endpoints[i]) :
                    i \in 1..Len(s.endpoints)}
           \cup {endpointServiceName(s, s.endpoints[i]) :
                    i \in 1..Len(s.endpoints)} : s \in PolicySpecs}

(***************************************************************************)
(* State.                                                                  *)
(*   cluster  the stored child objects: cluster[kind][name] is <<>> or     *)
(*            <<object>>                                                   *)
(*   policy   the stored EndpointPolicy objects: [spec, status]            *)
(*   pass     the reconciliation workers: where each is in Reconcile and   *)
(*            its local variables                                          *)
(*   faults   API calls that have failed and passes abandoned so far       *)
(*   changes  spec edits so far                                            *)
(*   errorFree  no pass so far has seen a call fail or was abandoned       *)
(***************************************************************************)
VARIABLES cluster, policy, pass, faults, changes, errorFree

vars == <<cluster, policy, pass, faults, changes, errorFree>>

Passes == {1, 2}

NoStatus == [endpointCount |-> 0, conditions |-> <<>>, endpointStatuses |-> <<>>]

EndpointStatus(id) ==
    [id |-> id, ready |-> FALSE, deploymentName |-> "", serviceName |-> "",
     routeName |-> "", message |-> ""]

EmptyLists == [k \in KindSet |-> {}]

(***************************************************************************)
(* A worker between passes.  ret is what the last pass returned ("none"    *)
(* before any pass; "crashed" when it was abandoned); log is the API calls *)
(* the last pass made; cluster0 the cluster when it began; origin the      *)
(* cluster when the first of a run of abandoned passes began.              *)
(***************************************************************************)
IdlePass ==
    [pc |-> "idle", phase |-> "", policyName |-> "", policy |-> [spec |-> PolicySpec("", <<>>), status |-> NoStatus],
     polStale |-> FALSE, k |-> 0, lists |-> EmptyLists, desired |-> {},
     i |-> 0, status |-> EndpointStatus(""), endpointStatuses |-> <<>>,
     existing |-> <<>>, heldKind |-> "", heldName |-> "", stale |-> FALSE,
     gcDone |-> {}, ret |-> "none", log |-> <<>>,
     cluster0 |-> [k \in KindSet |-> [n \in Names |-> <<>>]],
     origin |-> [k \in KindSet |-> [n \in Names |-> <<>>]],
     prevRet |-> "none", prevNoError |-> TRUE, status0 |-> NoStatus]

Init ==
    /\ cluster = [k \in KindSet |-> [n \in Names |-> <<>>]]
    /\ policy \in [Policies -> {[spec |-> s, status |-> NoStatus] : s \in PolicySpecs}]
    /\ pass = [p \in Passes |-> IdlePass]
    /\ faults = 0
    /\ changes = 0
    /\ errorFree = TRUE

(***************************************************************************)
(* An API call either succeeds or, while the fault budget lasts, fails     *)
(* with a transient error.                                                 *)
(***************************************************************************)
Outcomes == IF faults < MaxFaults THEN {"ok", "error"} ELSE {"ok"}

Fault(outcome) == faults' = IF outcome = "error" THEN faults + 1 ELSE faults

Call(op, kind, name, res, ep) ==
    [op |-> op, kind |-> kind, name |-> name, res |-> res, ep |-> ep]

Logged(r, op, kind, name, res) ==
    [r EXCEPT !.log = Append(@, Call(op, kind, name, res,
                                     IF r.pc \in {"Deployment", "Service",
                                                  "MainService", "Route", "HPA"}
                                     THEN r.i ELSE 0))]

(***************************************************************************)
(* The results a call can have that the code takes as an error.            *)
(***************************************************************************)
IsError(res) == res \in {"error", "conflict", "exists", "notfound"}

Clean(r) == r.ret = "ok" /\ \A j \in 1..Len(r.log) : ~IsError(r.log[j].res)

(***************************************************************************)
(* Reconcile's local control flow between two API calls, as functions of   *)
(* the worker's record r.                                                  *)
(***************************************************************************)
CurrentEndpoint(r) == r.policy.spec.endpoints[r.i]

(***************************************************************************)
(* The listed children the garbage collection has still to delete: those   *)
(* of the first kind, in list order, whose endpoint label is not desired.  *)
(***************************************************************************)
Garbage(r, kind) ==
    {it \in r.lists[kind] :
        it.eid \notin r.desired /\ <<kind, it.name>> \notin r.gcDone}

GarbageKinds(r) == {j \in 1..Len(Kinds) : Garbage(r, Kinds[j]) # {}}

(* A pass that returns right after the endpoint loop. *)
ReturnAfterLoop(r) == [r EXCEPT !.pc = "idle", !.phase = "", !.ret = "ok"]

StartGC(r) ==
    IF GarbageKinds(r) = {} THEN [r EXCEPT !.pc = "status", !.phase = ""]
    ELSE [r EXCEPT !.pc = "gc", !.phase = ""]

(* A loop that stops at the first failing endpoint (break). *)
BreakAfterFailure(r) == Len(r.policy.spec.endpoints) + 1

(* A loop that does not record the failing endpoint as desired. *)
DesiredWithoutFailed(desired, id) == desired

(***************************************************************************)
(* The endpoint loop goes on with the next endpoint after a failure        *)
(* (continue), and the failed endpoint is recorded as desired.             *)
(***************************************************************************)
AfterFailure(r) == r.i + 1

DesiredAfterFailure(desired, id) == desired \cup {id}

RECURSIVE StartEndpoint(_, _)
RECURSIVE EndpointFailed(_, _)
(* A loop that goes on to the Service step after a failed Deployment step. *)
ServiceAfterFailedDeployment(r, message) ==
    IF r.pc = "Deployment"
    THEN [r EXCEPT !.pc = "Service", !.phase = "get", !.existing = <<>>,
                   !.heldKind = "", !.heldName = "", !.stale = FALSE]
    ELSE StartEndpoint(
             [r EXCEPT !.endpointStatuses =
                           Append(@, [r.status EXCEPT !.message = message]),
                       !.desired = DesiredAfterFailure(@, CurrentEndpoint(r).id),
                       !.existing = <<>>, !.heldKind = "", !.heldName = "",
                       !.stale = FALSE],
             AfterFailure(r))

StartEndpoint(r, i) ==
    IF i > Len(r.policy.spec.endpoints)
    THEN StartGC([r EXCEPT !.i = i, !.status = EndpointStatus("")])
    ELSE LET e  == r.policy.spec.endpoints[i]
             b  == buildDeployment(r.policyName, r.policy.spec, e)
             r1 == [r EXCEPT !.i = i, !.status = EndpointStatus(e.id)]
         IN  IF b.err # ""
             THEN EndpointFailed(r1, "Deployment error: " \o b.err)
             ELSE [r1 EXCEPT !.pc = "Deployment", !.phase = "get"]

EndpointFailed(r, message) ==
    StartEndpoint(
        [r EXCEPT !.endpointStatuses =
                      Append(@, [r.status EXCEPT !.message = message]),
                  !.desired = DesiredAfterFailure(@, CurrentEndpoint(r).id),
                  !.existing = <<>>, !.heldKind = "", !.heldName = "",
                  !.stale = FALSE],
        AfterFailure(r))

(* A loop that keeps only the endpoint it processed last as desired. *)
EndpointReadyLastOnly(r) ==
    StartEndpoint(
        [r EXCEPT !.endpointStatuses =
                      Append(@, [r.status EXCEPT !.ready = TRUE]),
                  !.desired = {CurrentEndpoint(r).id}],
        r.i + 1)

EndpointReady(r) ==
    StartEndpoint(
        [r EXCEPT !.endpointStatuses =
                      Append(@, [r.status EXCEPT !.ready = TRUE]),
                  !.desired = @ \cup {CurrentEndpoint(r).id}],
        r.i + 1)

(***************************************************************************)
(* reconcileRoute up to its first API call: the gateway name is required,  *)
(* and the canary strategy first checks the main service.                  *)
(***************************************************************************)
(* A route step that looks for the main service under every strategy. *)
MainServiceAlwaysNeeded(endpoint) == TRUE

NeedsMainService(endpoint) ==
    (IF endpoint.strategy = "" THEN StrategyPrimary ELSE endpoint.strategy)
        = StrategyCanary

(* A route step that goes to the route write without the main-service     *)
(* check.                                                                  *)
StartRouteUnchecked(r) ==
    IF r.policy.spec.gatewayRef.name = ""
    THEN EndpointFailed(r, "Route error: gatewayRef.name is required")
    ELSE [r EXCEPT !.pc = "Route", !.phase = "get"]

StartRoute(r) ==
    IF r.policy.spec.gatewayRef.name = ""
    THEN EndpointFailed(r, "Route error: gatewayRef.name is required")
    ELSE IF NeedsMainService(CurrentEndpoint(r))
         THEN [r EXCEPT !.pc = "MainService", !.phase = "get"]
         ELSE [r EXCEPT !.pc = "Route", !.phase = "get"]

ChildSteps == {"Deployment", "Service", "Route", "HPA"}

(***************************************************************************)
(* The child a step converges: its kind, its name, the builder's object    *)
(* and the prefix of the step's error message.                             *)
(***************************************************************************)
Target(r) ==
    LET spec == r.policy.spec
        e    == CurrentEndpoint(r)
    IN  CASE r.pc = "Deployment" ->
               [kind |-> "Deployment", name |-> endpointResourceName(spec, e),
                desired |-> buildDeployment(r.policyName, spec, e).obj,
                prefix |-> "Deployment error: "]
          [] r.pc = "Service" ->
               [kind |-> "Service", name |-> endpointServiceName(spec, e),
                desired |-> buildService(r.policyName, spec, e),
                prefix |-> "Service error: "]
          [] r.pc = "Route" ->
               [kind |-> routeKind(e), name |-> endpointResourceName(spec, e),
                desired |-> IF routeKind(e) = "GRPCRoute"
                            THEN buildGRPCRoute(r.policyName, spec, e)
                            ELSE buildHTTPRoute(r.policyName, spec, e),
                prefix |-> "Route error: "]
          [] r.pc = "HPA" ->
               [kind |-> "HPA", name |-> endpointResourceName(spec, e),
                desired |-> buildHPA(r.policyName, spec, e),
                prefix |-> "HPA error: "]

(* A step that does not record the name of the child it converged. *)
StepSucceededUnnamed(r, name) ==
    LET r1 == [r EXCEPT !.existing = <<>>, !.heldKind = "", !.heldName = "",
                        !.stale = FALSE]
    IN  CASE r.pc = "Deployment" ->
               [r1 EXCEPT !.pc = "Service", !.phase = "get"]
          [] r.pc = "Service" -> StartRoute(r1)
          [] r.pc = "Route" ->
               IF IsSet(CurrentEndpoint(r).hpa)
               THEN [r1 EXCEPT !.pc = "HPA", !.phase = "get"]
               ELSE EndpointReady(r1)
          [] r.pc = "HPA" -> EndpointReady(r1)

StepSucceeded(r, name) ==
    LET r1 == [r EXCEPT !.existing = <<>>, !.heldKind = "", !.heldName = "",
                        !.stale = FALSE]
    IN  CASE r.pc = "Deployment" ->
               [r1 EXCEPT !.status.deploymentName = name, !.pc = "Service",
                          !.phase = "get"]
          [] r.pc = "Service" ->
               StartRoute([r1 EXCEPT !.status.serviceName = name])
          [] r.pc = "Route" ->
               IF IsSet(CurrentEndpoint(r).hpa)
               THEN [r1 EXCEPT !.status.routeName = name, !.pc = "HPA",
                               !.phase = "get"]
               ELSE EndpointReady([r1 EXCEPT !.status.routeName = name])
          [] r.pc = "HPA" -> EndpointReady(r1)

(***************************************************************************)
(* What an update stores: the object read, with the spec (for a Service,   *)
(* its ports and selector only) and the labels of the desired object.      *)
(***************************************************************************)
Updated(kind, existing, desired) ==
    IF kind = "Service"
    THEN [existing EXCEPT !.spec.port = desired.spec.port,
                          !.spec.targetPort = desired.spec.targetPort,
                          !.spec.selector = desired.spec.selector,
                          !.labels = desired.labels]
    ELSE [existing EXCEPT !.spec = desired.spec, !.labels = desired.labels]

(***************************************************************************)
(* The API server's optimistic concurrency: a write that changes a stored  *)
(* object gives it a new resourceVersion, so the copy another worker read  *)
(* before is stale and its update is rejected with a conflict.             *)
(***************************************************************************)
Invalidate(r, kind, name) ==
    IF r.phase = "put" /\ r.heldKind = kind /\ r.heldName = name
    THEN [r EXCEPT !.stale = TRUE] ELSE r

Written(p, r, kind, name, changed) ==
    [q \in Passes |-> IF q = p THEN r
                      ELSE IF changed THEN Invalidate(pass[q], kind, name)
                           ELSE pass[q]]

ListItems(cl, kind, policyName) ==
    {[name |-> n, eid |-> cl[kind][n][1].labels.endpoint] :
        n \in {m \in Names : /\ cl[kind][m] # <<>>
                             /\ MatchingLabels(cl[kind][m][1].labels, policyName)}}

(***************************************************************************)
(* Reconcile, one action per API call.                                     *)
(***************************************************************************)
ValidationFailed(message) ==
    [type |-> "Ready", status |-> "False", reason |-> "ValidationFailed",
     message |-> message]

(* A reconciler that goes on whatever Validate reports. *)
ValidationIgnored(spec) == TRUE

(***************************************************************************)
(* Validation lets the pass go on only when it reports no error.           *)
(***************************************************************************)
ValidationPasses(spec) == Validate(spec) = <<>>

(***************************************************************************)
(* Reconcile's fetch of the policy and its validation (a failed fetch      *)
(* returns the error; a rejected spec goes to its status write).           *)
(***************************************************************************)
FetchPolicy(p, n) ==
    /\ pass[p].pc = "idle"
    /\ \E out \in Outcomes :
        /\ Fault(out)
        /\ LET r == [IdlePass EXCEPT
                        !.policyName = n,
                        !.policy = policy[n],
                        !.cluster0 = cluster,
                        !.origin = IF pass[p].ret = "crashed"
                                   THEN pass[p].origin ELSE cluster,
                        !.prevRet = pass[p].ret,
                        !.prevNoError =
                            \A j \in 1..Len(pass[p].log) :
                                ~IsError(pass[p].log[j].res),
                        !.status0 = policy[n].status,
                        !.log = <<Call("get", "EndpointPolicy", n, out, 0)>>]
           IN  pass' = [pass EXCEPT ![p] =
                   IF out = "error" THEN [r EXCEPT !.ret = "err"]
                   ELSE IF ~ValidationPasses(r.policy.spec)
                        THEN [r EXCEPT
                                !.pc = "validation",
                                !.policy.status.conditions =
                                    <<ValidationFailed(
                                        AggregateError(Validate(r.policy.spec)))>>]
                        ELSE [r EXCEPT !.pc = "list", !.k = 1]]
        /\ errorFree' = (errorFree /\ out = "ok")
    /\ UNCHANGED <<cluster, policy, changes>>

(***************************************************************************)
(* Reconcile's fetch for a request whose policy no longer exists: the Get  *)
(* answers not-found and the pass returns without an error and without     *)
(* another call.                                                           *)
(***************************************************************************)
DeletedPolicy == "q"

NotFoundPass(p, ret) ==
    /\ pass[p].pc = "idle"
    /\ pass' = [pass EXCEPT ![p] =
           [IdlePass EXCEPT
               !.policyName = DeletedPolicy,
               !.cluster0 = cluster,
               !.origin = IF pass[p].ret = "crashed"
                          THEN pass[p].origin ELSE cluster,
               !.prevRet = pass[p].ret,
               !.prevNoError = \A j \in 1..Len(pass[p].log) :
                                   ~IsError(pass[p].log[j].res),
               !.ret = ret,
               !.log = <<Call("get", "EndpointPolicy", DeletedPolicy,
                              "notfound", 0)>>]]
    /\ UNCHANGED <<cluster, policy, faults, changes, errorFree>>

(* A fetch that returns the not-found answer to the caller as an error. *)
PolicyNotFoundIsError(p) == NotFoundPass(p, "err")

PolicyNotFound(p) == NotFoundPass(p, "ok")

(***************************************************************************)
(* Status().Update: it stores the worker's copy of the status, unless the  *)
(* call fails or the policy was written since the worker read it.          *)
(***************************************************************************)
WriteStatus(p, status) ==
    LET r == pass[p]
        n == r.policyName
    IN  \E out \in Outcomes :
            /\ Fault(out)
            /\ LET res == IF out = "error" THEN "error"
                          ELSE IF r.polStale THEN "conflict" ELSE "ok"
                   done == [Logged(r, "update", "EndpointPolicyStatus", n, res)
                               EXCEPT !.pc = "idle", !.phase = "",
                                      !.policy.status = status,
                                      !.ret = IF res = "ok" THEN "ok" ELSE "err"]
               IN  /\ policy' = IF res = "ok"
                                THEN [policy EXCEPT ![n].status = status]
                                ELSE policy
                   /\ errorFree' = (errorFree /\ Clean(done))
                   /\ pass' = [q \in Passes |->
                                 IF q = p THEN done
                                 ELSE IF /\ res = "ok"
                                         /\ policy[n].status # status
                                         /\ pass[q].policyName = n
                                         /\ pass[q].pc # "idle"
                                      THEN [pass[q] EXCEPT !.polStale = TRUE]
                                      ELSE pass[q]]

(* A validation-failure write that also clears the endpoint part of the    *)
(* status.                                                                 *)
UpdateStatusValidationCleared(p) ==
    /\ pass[p].pc = "validation"
    /\ WriteStatus(p, [pass[p].policy.status EXCEPT
                          !.endpointCount = 0, !.endpointStatuses = <<>>])
    /\ UNCHANGED <<cluster, changes>>

UpdateStatusValidationFailed(p) ==
    /\ pass[p].pc = "validation"
    /\ WriteStatus(p, pass[p].policy.status)
    /\ UNCHANGED <<cluster, changes>>

(***************************************************************************)
(* The five List calls; an error is ignored and leaves the list empty.     *)
(***************************************************************************)
ListChildren(p) ==
    /\ pass[p].pc = "list"
    /\ LET r    == pass[p]
           kind == Kinds[r.k]
       IN  \E out \in Outcomes :
             /\ Fault(out)
             /\ LET r1 == [Logged(r, "list", kind, "", out) EXCEPT
                              !.lists[kind] =
                                  IF out = "ok"
                                  THEN ListItems(cluster, kind, r.policyName)
                                  ELSE {}]
                IN  pass' = [pass EXCEPT ![p] =
                               IF r.k < Len(Kinds) THEN [r1 EXCEPT !.k = r.k + 1]
                               ELSE StartEndpoint([r1 EXCEPT !.k = 0], 1)]
    /\ UNCHANGED <<cluster, policy, changes, errorFree>>

(***************************************************************************)
(* reconcileDeployment, reconcileService, reconcileHTTPRoute,              *)
(* reconcileGRPCRoute and reconcileHPA: the Get of the child by name.      *)
(***************************************************************************)
GetChild(p) ==
    /\ pass[p].pc \in ChildSteps
    /\ pass[p].phase = "get"
    /\ LET r == pass[p]
           t == Target(r)
       IN  \E out \in Outcomes :
             /\ Fault(out)
             /\ pass' = [pass EXCEPT ![p] =
                   IF out = "error"
                   THEN EndpointFailed(Logged(r, "get", t.kind, t.name, "error"),
                                       t.prefix \o "api error")
                   ELSE [Logged(r, "get", t.kind, t.name,
                                IF cluster[t.kind][t.name] = <<>>
                                THEN "absent" ELSE "ok")
                            EXCEPT !.phase = "put",
                                   !.existing = cluster[t.kind][t.name],
                                   !.heldKind = t.kind, !.heldName = t.name,
                                   !.stale = FALSE]]
    /\ UNCHANGED <<cluster, policy, changes, errorFree>>

(***************************************************************************)
(* The Create of an absent child.  It fails with already-exists when the   *)
(* object has been created since the Get, and the caller takes that as the *)
(* step's error.                                                           *)
(***************************************************************************)
CreateChild(p) ==
    /\ pass[p].pc \in ChildSteps
    /\ pass[p].phase = "put"
    /\ pass[p].existing = <<>>
    /\ LET r == pass[p]
           t == Target(r)
       IN  \E out \in Outcomes :
             /\ Fault(out)
             /\ LET res == IF out = "error" THEN "error"
                           ELSE IF cluster[t.kind][t.name] # <<>> THEN "exists"
                                ELSE "ok"
                    r1  == Logged(r, "create", t.kind, t.name, res)
                IN  /\ cluster' = IF res = "ok"
                                  THEN [cluster EXCEPT ![t.kind][t.name] =
                                                           <<t.desired>>]
                                  ELSE cluster
                    /\ pass' = Written(p,
                          IF res = "ok" THEN StepSucceeded(r1, t.name)
                          ELSE EndpointFailed(r1, t.prefix \o
                                  (IF res = "exists" THEN "already exists"
                                   ELSE "api error")),
                          t.kind, t.name, res = "ok")
    /\ UNCHANGED <<policy, changes, errorFree>>

(***************************************************************************)
(* The Update of a child that the Get found.  It fails with not-found when *)
(* the object is gone and with a conflict when it was written since the    *)
(* Get; the caller takes either as the step's error.                       *)
(***************************************************************************)
UpdateChild(p) ==
    /\ pass[p].pc \in ChildSteps
    /\ pass[p].phase = "put"
    /\ pass[p].existing # <<>>
    /\ LET r == pass[p]
           t == Target(r)
           new == Updated(t.kind, r.existing[1], t.desired)
       IN  \E out \in Outcomes :
             /\ Fault(out)
             /\ LET res == IF out = "error" THEN "error"
                           ELSE IF cluster[t.kind][t.name] = <<>> THEN "notfound"
                                ELSE IF r.stale THEN "conflict" ELSE "ok"
                    r1  == Logged(r, "update", t.kind, t.name, res)
                IN  /\ cluster' = IF res = "ok"
                                  THEN [cluster EXCEPT ![t.kind][t.name] = <<new>>]
                                  ELSE cluster
                    /\ pass' = Written(p,
                          IF res = "ok" THEN StepSucceeded(r1, t.name)
                          ELSE EndpointFailed(r1, t.prefix \o
                                  (CASE res = "notfound" -> "not found"
                                     [] res = "conflict" -> "conflict"
                                     [] OTHER -> "api error")),
                          t.kind, t.name,
                          res = "ok" /\ cluster[t.kind][t.name] # <<new>>)
    /\ UNCHANGED <<policy, changes, errorFree>>

(***************************************************************************)
(* validateMainServiceExists: any error of the Get, not-found included,    *)
(* fails the route step.                                                   *)
(***************************************************************************)
MainServiceError(spec, err) ==
    "Route error: canary strategy requires main service \""
        \o mainServiceName(spec) \o "\" to exist: " \o err

(* A route step that takes the main service to exist without looking. *)
MainServiceAssumed(cl, name) == TRUE

MainServiceFound(cl, name) == cl["Service"][name] # <<>>

validateMainServiceExists(p) ==
    /\ pass[p].pc = "MainService"
    /\ LET r    == pass[p]
           name == mainServiceName(r.policy.spec)
       IN  \E out \in Outcomes :
             /\ Fault(out)
             /\ LET res == IF out = "error" THEN "error"
                           ELSE IF MainServiceFound(cluster, name) THEN "ok"
                                ELSE "notfound"
                    r1  == Logged(r, "get", "Service", name, res)
                IN  pass' = [pass EXCEPT ![p] =
                       IF res = "ok" THEN [r1 EXCEPT !.pc = "Route", !.phase = "get"]
                       ELSE EndpointFailed(r1,
                               MainServiceError(r.policy.spec,
                                   IF res = "notfound" THEN "not found"
                                   ELSE "api error"))]
    /\ UNCHANGED <<cluster, policy, changes, errorFree>>

(***************************************************************************)
(* Garbage collection: one Delete per listed child whose endpoint label is *)
(* not desired; the Delete names the object and its error is ignored.      *)
(***************************************************************************)
DeleteUndesired(p) ==
    /\ pass[p].pc = "gc"
    /\ LET r    == pass[p]
           kind == Kinds[CHOOSE j \in GarbageKinds(r) :
                             \A l \in GarbageKinds(r) : j <= l]
           it   == CHOOSE x \in Garbage(r, kind) : TRUE
       IN  \E out \in Outcomes :
             /\ Fault(out)
             /\ LET res == IF out = "error" THEN "error"
                           ELSE IF cluster[kind][it.name] = <<>> THEN "notfound"
                                ELSE "ok"
                    r1  == [Logged(r, "delete", kind, it.name, res) EXCEPT
                               !.gcDone = @ \cup {<<kind, it.name>>}]
                IN  /\ cluster' = IF res = "ok"
                                  THEN [cluster EXCEPT ![kind][it.name] = <<>>]
                                  ELSE cluster
                    /\ pass' = Written(p, StartGC(r1), kind, it.name, res = "ok")
    /\ UNCHANGED <<policy, changes, errorFree>>

(***************************************************************************)
(* The status aggregation and the final Status().Update.                   *)
(***************************************************************************)
(* A count that takes every recorded endpoint status as ready. *)
CountRecorded(statuses) == Len(statuses)

ReadyCount(statuses) == Cardinality({j \in 1..Len(statuses) : statuses[j].ready})

(* A condition that is True only when a single endpoint is ready. *)
ReadyConditionSingle(readyCount, total) ==
    IF readyCount = 1
    THEN [type |-> "Ready", status |-> "True", reason |-> "AllEndpointsReady",
          message |-> "All " \o Itoa(readyCount) \o " endpoints ready"]
    ELSE [type |-> "Ready", status |-> "False", reason |-> "EndpointsNotReady",
          message |-> Itoa(readyCount) \o "/" \o Itoa(total) \o " endpoints ready"]

ReadyCondition(readyCount, total) ==
    IF readyCount = total
    THEN [type |-> "Ready", status |-> "True", reason |-> "AllEndpointsReady",
          message |-> "All " \o Itoa(readyCount) \o " endpoints ready"]
    ELSE [type |-> "Ready", status |-> "False", reason |-> "EndpointsNotReady",
          message |-> Itoa(readyCount) \o "/" \o Itoa(total) \o " endpoints ready"]

(* A status that counts the endpoints the pass recorded as ready. *)
AggregateReadyOnly(r) ==
    [endpointCount    |-> ReadyCount(r.endpointStatuses),
     endpointStatuses |-> r.endpointStatuses,
     conditions       |-> <<ReadyCondition(ReadyCount(r.endpointStatuses),
                                           Len(r.policy.spec.endpoints))>>]

AggregateStatus(r) ==
    [endpointCount    |-> Len(r.policy.spec.endpoints),
     endpointStatuses |-> r.endpointStatuses,
     conditions       |-> <<ReadyCondition(ReadyCount(r.endpointStatuses),
                                           Len(r.policy.spec.endpoints))>>]

UpdateStatus(p) ==
    /\ pass[p].pc = "status"
    /\ WriteStatus(p, AggregateStatus(pass[p]))
    /\ UNCHANGED <<cluster, changes>>

(***************************************************************************)
(* A pass abandoned between two API calls (the process dies, the context   *)
(* is cancelled).                                                          *)
(***************************************************************************)
Crash(p) ==
    /\ pass[p].pc # "idle"
    /\ faults < MaxFaults
    /\ faults' = faults + 1
    /\ pass' = [pass EXCEPT ![p] = [@ EXCEPT !.pc = "idle", !.phase = "",
                                             !.ret = "crashed"]]
    /\ errorFree' = FALSE
    /\ UNCHANGED <<cluster, policy, changes>>

(***************************************************************************)
(* The environment, between passes: the policy's author edits its spec;    *)
(* the application's own main service is created or deleted.               *)
(***************************************************************************)
AllIdle == \A p \in Passes : pass[p].pc = "idle"

MainService ==
    [labels |-> NoLabels, owner |-> "",
     spec |-> [type |-> "ClusterIP", selector |-> NoLabels,
               port |-> DefaultServicePort, targetPort |-> DefaultContainerPort]]

ChangeSpec(n) ==
    /\ AllIdle
    /\ changes < MaxSpecChanges
    /\ \E s \in PolicySpecs \ {policy[n].spec} :
          policy' = [policy EXCEPT ![n].spec = s]
    /\ changes' = changes + 1
    /\ pass' = [p \in Passes |-> IdlePass]
    /\ UNCHANGED <<cluster, faults, errorFree>>

CreateMainService(n) ==
    /\ AllIdle
    /\ cluster["Service"][mainServiceName(policy[n].spec)] = <<>>
    /\ cluster' = [cluster EXCEPT
                      !["Service"][mainServiceName(policy[n].spec)] =
                          <<MainService>>]
    /\ pass' = [p \in Passes |-> IdlePass]
    /\ UNCHANGED <<policy, faults, changes, errorFree>>

DeleteMainService(n) ==
    /\ AllIdle
    /\ cluster["Service"][mainServiceName(policy[n].spec)] = <<MainService>>
    /\ cluster' = [cluster EXCEPT
                      !["Service"][mainServiceName(policy[n].spec)] = <<>>]
    /\ pass' = [p \in Passes |-> IdlePass]
    /\ UNCHANGED <<policy, faults, changes, errorFree>>

(***************************************************************************)
(* Somebody else edits a child the controller wrote: its labels are        *)
(* removed, or a field of its spec is set to a value no builder gives      *)
(* (the Service's type, the Deployment's replicas, the HPA's maximum, the  *)
(* route's backends).  The edit counts against the budget of changes.      *)
(***************************************************************************)
Edits == {"spec", "labels"}

Edited(kind, obj, edit) ==
    IF edit = "labels" THEN [obj EXCEPT !.labels = NoLabels]
    ELSE CASE kind = "Service"    -> [obj EXCEPT !.spec.type = "NodePort"]
           [] kind = "Deployment" -> [obj EXCEPT !.spec.replicas = 0]
           [] kind = "HPA"        -> [obj EXCEPT !.spec.maxReplicas = 0]
           [] OTHER               -> [obj EXCEPT !.spec.backendRefs = <<>>]

Tamper(n) ==
    /\ AllIdle
    /\ changes < MaxSpecChanges
    /\ \E kind \in KindSet, name \in Names, edit \in Edits :
          /\ cluster[kind][name] # <<>>
          /\ cluster[kind][name][1].owner = n
          /\ cluster' = [cluster EXCEPT ![kind][name] =
                            <<Edited(kind, cluster[kind][name][1], edit)>>]
    /\ changes' = changes + 1
    /\ pass' = [p \in Passes |-> IdlePass]
    /\ UNCHANGED <<policy, faults, errorFree>>

Environment ==
    \E n \in Policies :
        \/ ChangeSpec(n)
        \/ CreateMainService(n)
        \/ DeleteMainService(n)
        \/ Tamper(n)

Steps(p) ==
    \/ UpdateStatusValidationFailed(p)
    \/ ListChildren(p)
    \/ GetChild(p)
    \/ CreateChild(p)
    \/ UpdateChild(p)
    \/ validateMainServiceExists(p)
    \/ DeleteUndesired(p)
    \/ UpdateStatus(p)

Reconcile(p) ==
    \/ \E n \in Policies : FetchPolicy(p, n)
    \/ PolicyNotFound(p)
    \/ Steps(p)

(***************************************************************************)
(* Spec: the passes of one policy run one after another; a pass may be     *)
(* abandoned at any call.                                                  *)
(***************************************************************************)
Next ==
    \/ Environment
    \/ Reconcile(1)
    \/ Crash(1)

Spec == Init /\ [][Next]_vars

(***************************************************************************)
(* Reconcile run from its fetch to its return with every API call          *)
(* succeeding and nothing else touching the cluster: the endpoint loop,    *)
(* then the garbage collection over the lists taken before the loop, then  *)
(* the status.                                                             *)
(***************************************************************************)
Converge(cl, kind, name, desired) ==
    [cl EXCEPT ![kind][name] =
        IF @ = <<>> THEN <<desired>> ELSE <<Updated(kind, @[1], desired)>>]

FullEndpoint(cl, policyName, spec, e) ==
    LET rn == endpointResourceName(spec, e)
        sn == endpointServiceName(spec, e)
        b  == buildDeployment(policyName, spec, e)
        c1 == Converge(cl, "Deployment", rn, b.obj)
        c2 == Converge(c1, "Service", sn, buildService(policyName, spec, e))
        c3 == Converge(c2, routeKind(e), rn,
                       IF routeKind(e) = "GRPCRoute"
                       THEN buildGRPCRoute(policyName, spec, e)
                       ELSE buildHTTPRoute(policyName, spec, e))
        c4 == IF IsSet(e.hpa)
              THEN Converge(c3, "HPA", rn, buildHPA(policyName, spec, e))
              ELSE c3
        s0 == EndpointStatus(e.id)
        s2 == [s0 EXCEPT !.deploymentName = rn, !.serviceName = sn]
    IN  IF b.err # ""
        THEN [cluster |-> cl,
              status |-> [s0 EXCEPT !.message = "Deployment error: " \o b.err]]
        ELSE IF spec.gatewayRef.name = ""
        THEN [cluster |-> c2,
              status |-> [s2 EXCEPT !.message =
                             "Route error: gatewayRef.name is required"]]
        ELSE IF /\ NeedsMainService(e)
                /\ ~MainServiceFound(c2, mainServiceName(spec))
        THEN [cluster |-> c2,
              status |-> [s2 EXCEPT !.message =
                             MainServiceError(spec, "not found")]]
        ELSE [cluster |-> c4,
              status |-> [s2 EXCEPT !.routeName = rn, !.ready = TRUE]]

RECURSIVE FullLoop(_, _, _, _, _)
FullLoop(cl, policyName, spec, i, statuses) ==
    IF i > Len(spec.endpoints)
    THEN [cluster |-> cl, statuses |-> statuses]
    ELSE LET step == FullEndpoint(cl, policyName, spec, spec.endpoints[i])
         IN  FullLoop(step.cluster, policyName, spec, i + 1,
                      Append(statuses, step.status))

SpecIds(spec) == {spec.endpoints[j].id : j \in 1..Len(spec.endpoints)}

FullPass(cl, policyName, spec) ==
    LET loop == FullLoop(cl, policyName, spec, 1, <<>>)
        gone(k, m) == \E it \in ListItems(cl, k, policyName) :
                          it.name = m /\ it.eid \notin SpecIds(spec)
    IN  [cluster |-> [k \in KindSet |-> [m \in Names |->
                         IF gone(k, m) THEN <<>> ELSE loop.cluster[k][m]]],
         status  |-> [endpointCount    |-> Len(spec.endpoints),
                      endpointStatuses |-> loop.statuses,
                      conditions       |->
                          <<ReadyCondition(ReadyCount(loop.statuses),
                                           Len(spec.endpoints))>>]]

(***************************************************************************)
(* Properties of the passes of one policy.                                 *)
(***************************************************************************)
Worker == pass[1]

(* The pass has returned (it was not abandoned) after fetching the policy. *)
Returned(r) ==
    /\ r.pc = "idle"
    /\ r.ret \in {"ok", "err"}
    /\ r.log[1].res = "ok"

Valid(spec) == Validate(spec) = <<>>

(* The objects that carry the policy's ownership labels. *)
Owned(cl, policyName) ==
    {<<k, m>> \in KindSet \X Names :
        /\ cl[k][m] # <<>>
        /\ MatchingLabels(cl[k][m][1].labels, policyName)}

(* One Deployment, one Service and one route of the endpoint's type per    *)
(* endpoint, and one HPA per endpoint that has an hpa block.               *)
Expected(spec) ==
    UNION {LET e == spec.endpoints[j]
           IN  {<<"Deployment", endpointResourceName(spec, e)>>,
                <<"Service", endpointServiceName(spec, e)>>,
                <<routeKind(e), endpointResourceName(spec, e)>>}
               \cup (IF IsSet(e.hpa)
                     THEN {<<"HPA", endpointResourceName(spec, e)>>} ELSE {})
           : j \in 1..Len(spec.endpoints)}

(***************************************************************************)
(* C1: after error-free passes over any sequence of valid spec versions,   *)
(* the objects that carry the policy's ownership labels are exactly one    *)
(* Deployment, one Service and one route of its type per endpoint of the   *)
(* current spec, plus one HPA per endpoint with an hpa block.              *)
(***************************************************************************)
C1_OwnedIsExpected ==
    (/\ errorFree
     /\ Returned(Worker)
     /\ Clean(Worker)
     /\ Valid(policy["p"].spec))
        => Owned(cluster, "p") = Expected(policy["p"].spec)

(***************************************************************************)
(* C2: a pass over a spec from which an endpoint id was removed deletes    *)
(* every child labelled with the removed id, and deletes no child that is  *)
(* labelled, when it is deleted, with an id still in the spec (stated for  *)
(* passes in which, as in all passes before, no call has failed).          *)
(***************************************************************************)
NoErrorSoFar(r) == \A j \in 1..Len(r.log) : ~IsError(r.log[j].res)

C2_DeletesOnlyRemoved ==
    [][/\ \A k \in KindSet, m \in Names :
            (/\ Worker.pc = "gc"
             /\ errorFree
             /\ NoErrorSoFar(Worker)
             /\ cluster[k][m] # <<>>
             /\ cluster'[k][m] = <<>>)
                => cluster[k][m][1].labels.endpoint
                       \notin SpecIds(Worker.policy.spec)
       /\ (Returned(pass'[1]) /\ Clean(pass'[1]) /\ errorFree')
            => \A k \in KindSet : \A it \in pass'[1].lists[k] :
                  it.eid \notin SpecIds(pass'[1].policy.spec)
                      => cluster'[k][it.name] = <<>>]_vars

(***************************************************************************)
(* C3: when Validate rejects the spec the pass makes no child API call     *)
(* (no list, get, create, update or delete), leaves the cluster as it      *)
(* found it, and sets the Ready condition to False with reason             *)
(* ValidationFailed and the aggregated error text as its message.          *)
(***************************************************************************)
PolicyKinds == {"EndpointPolicy", "EndpointPolicyStatus"}

C3_ValidationStopsPass ==
    (/\ Worker.policyName # ""
     /\ Worker.log[1].res = "ok"
     /\ Validate(Worker.policy.spec) # <<>>)
        => /\ \A j \in 1..Len(Worker.log) : Worker.log[j].kind \in PolicyKinds
           /\ Worker.pc \in {"validation", "idle"}
           /\ cluster = Worker.cluster0
           /\ Worker.policy.status.conditions =
                  <<[type |-> "Ready", status |-> "False",
                     reason |-> "ValidationFailed",
                     message |-> AggregateError(Validate(Worker.policy.spec))]>>
           /\ Worker.policy.status.conditions[1].message # ""
           /\ Worker.policy.status.endpointStatuses = Worker.status0.endpointStatuses
           /\ Worker.ret = "ok"
                => policy[Worker.policyName].status = Worker.policy.status

C3_Witness ==
    /\ Returned(Worker)
    /\ Worker.ret = "ok"
    /\ Validate(Worker.policy.spec) # <<>>
    /\ Owned(cluster, "p") # {}
    /\ policy["p"].status.conditions[1].message =
          "spec.endpoints[0].match.path: Required value: path is required for HTTP endpoints"

(***************************************************************************)
(* C4: a failure in one endpoint's steps never keeps the other endpoints   *)
(* of the policy, earlier or later in the list, from being processed: the  *)
(* pass records one status per endpoint, in order, and every endpoint      *)
(* whose own calls all succeeded is ready, with its Deployment, Service    *)
(* and route (and HPA, if it has an hpa block) written by this pass.       *)
(***************************************************************************)
FailedEndpoints(r) ==
    {r.log[j].ep : j \in {l \in 1..Len(r.log) : IsError(r.log[l].res)}} \ {0}

Wrote(r, i, kind, name) ==
    \E j \in 1..Len(r.log) :
        /\ r.log[j].ep = i
        /\ r.log[j].op \in {"create", "update"}
        /\ r.log[j].kind = kind
        /\ r.log[j].name = name
        /\ r.log[j].res = "ok"

Processed(r, i) ==
    LET spec == r.policy.spec
        e    == spec.endpoints[i]
    IN  /\ r.endpointStatuses[i] =
              [id |-> e.id, ready |-> TRUE,
               deploymentName |-> endpointResourceName(spec, e),
               serviceName |-> endpointServiceName(spec, e),
               routeName |-> endpointResourceName(spec, e), message |-> ""]
        /\ Wrote(r, i, "Deployment", endpointResourceName(spec, e))
        /\ Wrote(r, i, "Service", endpointServiceName(spec, e))
        /\ Wrote(r, i, routeKind(e), endpointResourceName(spec, e))
        /\ IsSet(e.hpa) => Wrote(r, i, "HPA", endpointResourceName(spec, e))

C4_SiblingsProcessed ==
    (Returned(Worker) /\ Valid(Worker.policy.spec))
        => /\ Len(Worker.endpointStatuses) = Len(Worker.policy.spec.endpoints)
           /\ \A i \in 1..Len(Worker.policy.spec.endpoints) :
                 /\ Worker.endpointStatuses[i].id = Worker.policy.spec.endpoints[i].id
                 /\ i \notin FailedEndpoints(Worker) => Processed(Worker, i)

C4_Witness ==
    /\ Returned(Worker)
    /\ Len(Worker.policy.spec.endpoints) = 2
    /\ 1 \in FailedEndpoints(Worker)
    /\ ~Worker.endpointStatuses[1].ready
    /\ Processed(Worker, 2)

(***************************************************************************)
(* C5: an endpoint whose step failed still counts as desired: the garbage  *)
(* collection of that pass deletes none of the children that endpoint      *)
(* already had.                                                            *)
(***************************************************************************)
FailedIds(r) == {r.policy.spec.endpoints[i].id : i \in FailedEndpoints(r)}

Deleted(r, kind, name) ==
    \E j \in 1..Len(r.log) :
        /\ r.log[j].op = "delete"
        /\ r.log[j].kind = kind
        /\ r.log[j].name = name

(* The children an endpoint id had when the pass began. *)
ChildrenAtStart(r, ids) ==
    {c \in Owned(r.cluster0, r.policyName) :
        r.cluster0[c[1]][c[2]][1].labels.endpoint \in ids}

C5_FailedEndpointKeepsChildren ==
    Worker.policyName # ""
        => \A c \in ChildrenAtStart(Worker, FailedIds(Worker)) :
              /\ ~Deleted(Worker, c[1], c[2])
              /\ cluster[c[1]][c[2]] # <<>>

C5_Witness ==
    /\ Returned(Worker)
    /\ ChildrenAtStart(Worker, FailedIds(Worker)) # {}
    /\ \E k \in KindSet, m \in Names : Deleted(Worker, k, m)

(***************************************************************************)
(* C10: for a canary endpoint whose main service {appRef.name}-svc does    *)
(* not exist when its route step runs, no route is created or updated,     *)
(* the endpoint is recorded as not ready with a route error message that   *)
(* names the main service, and the other endpoints of the policy are       *)
(* processed as usual.                                                     *)
(***************************************************************************)
RouteKinds == {"HTTPRoute", "GRPCRoute"}

ReachedRoute(r, i) ==
    LET spec == r.policy.spec
        e    == spec.endpoints[i]
    IN  /\ Wrote(r, i, "Deployment", endpointResourceName(spec, e))
        /\ Wrote(r, i, "Service", endpointServiceName(spec, e))

MainServiceMissing(r, i) ==
    /\ r.policy.spec.endpoints[i].strategy = StrategyCanary
    /\ r.cluster0["Service"][mainServiceName(r.policy.spec)] = <<>>
    /\ ReachedRoute(r, i)

C10_CanaryWithoutMainService ==
    (Returned(Worker) /\ Valid(Worker.policy.spec))
        => \A i \in 1..Len(Worker.policy.spec.endpoints) :
             MainServiceMissing(Worker, i)
                => LET spec == Worker.policy.spec
                       e    == spec.endpoints[i]
                   IN  /\ \A j \in 1..Len(Worker.log) :
                             (Worker.log[j].ep = i /\ Worker.log[j].kind \in RouteKinds)
                                => Worker.log[j].op \notin {"create", "update"}
                       /\ \A k \in RouteKinds :
                             cluster[k][endpointResourceName(spec, e)] \in
                                 {Worker.cluster0[k][endpointResourceName(spec, e)],
                                  <<>>}
                       /\ Worker.endpointStatuses[i] =
                             [id |-> e.id, ready |-> FALSE,
                              deploymentName |-> endpointResourceName(spec, e),
                              serviceName |-> endpointServiceName(spec, e),
                              routeName |-> "",
                              message |->
                                  IF \E j \in 1..Len(Worker.log) :
                                        /\ Worker.log[j].ep = i
                                        /\ Worker.log[j].res = "error"
                                  THEN MainServiceError(spec, "api error")
                                  ELSE "Route error: canary strategy requires main service \""
                                       \o spec.appRef.name \o "-svc\" to exist: not found"]
                       /\ \A l \in 1..Len(spec.endpoints) :
                             l \notin FailedEndpoints(Worker) => Processed(Worker, l)

C10_Witness ==
    /\ Returned(Worker)
    /\ Worker.ret = "ok"
    /\ \E i, l \in 1..Len(Worker.policy.spec.endpoints) :
          /\ MainServiceMissing(Worker, i)
          /\ Worker.endpointStatuses[i].message =
                 MainServiceError(Worker.policy.spec, "not found")
          /\ l # i
          /\ Processed(Worker, l)
    /\ policy["p"].status.conditions[1].message = "1/2 endpoints ready"

(***************************************************************************)
(* C6: after one error-free pass on a valid spec, a second pass on the     *)
(* unchanged spec creates nothing and deletes nothing, and leaves the      *)
(* child objects and the policy status as they were after the first.       *)
(***************************************************************************)
C6_SecondPassNoOp ==
    (/\ Returned(Worker)
     /\ Clean(Worker)
     /\ Worker.prevRet = "ok"
     /\ Worker.prevNoError
     /\ errorFree
     /\ Valid(Worker.policy.spec))
        => /\ \A j \in 1..Len(Worker.log) :
                 Worker.log[j].op \notin {"create", "delete"}
           /\ cluster = Worker.cluster0
           /\ policy["p"].status = Worker.status0

(***************************************************************************)
(* C7: when a pass is abandoned after a prefix of its writes and a full    *)
(* error-free pass on the same spec follows, the child objects and the     *)
(* policy status are those of a single uninterrupted error-free pass from  *)
(* the state the abandoned pass began in.                                  *)
(***************************************************************************)
C7_RetryConverges ==
    (/\ Returned(Worker)
     /\ Clean(Worker)
     /\ Worker.prevRet = "crashed"
     /\ Worker.prevNoError
     /\ Valid(Worker.policy.spec))
        => /\ cluster = FullPass(Worker.origin, "p", Worker.policy.spec).cluster
           /\ policy["p"].status =
                  FullPass(Worker.origin, "p", Worker.policy.spec).status

(***************************************************************************)
(* SpecConc: two passes of the same policy overlap (two workers, or a      *)
(* requeue that starts while a cancelled pass is still writing); their     *)
(* API calls interleave in any order and no call fails for a transient     *)
(* reason.  Each worker makes one pass; the passes start on a cluster that *)
(* an error-free pass over an earlier version of the spec has left, with   *)
(* or without the main service of the application.                         *)
(***************************************************************************)
EmptyCluster == [k \in KindSet |-> [n \in Names |-> <<>>]]

LeftBy(spec0) ==
    IF Validate(spec0) = <<>> THEN FullPass(EmptyCluster, "p", spec0).cluster
    ELSE EmptyCluster

WithMainService(cl, spec) ==
    IF cl["Service"][mainServiceName(spec)] = <<>>
    THEN [cl EXCEPT !["Service"][mainServiceName(spec)] = <<MainService>>]
    ELSE cl

InitConc ==
    /\ policy \in [Policies -> {[spec |-> s, status |-> NoStatus] : s \in PolicySpecs}]
    /\ \E spec0 \in PolicySpecs :
          cluster \in {LeftBy(spec0), WithMainService(LeftBy(spec0), policy["p"].spec)}
    /\ pass = [p \in Passes |-> IdlePass]
    /\ faults = MaxFaults
    /\ changes = MaxSpecChanges
    /\ errorFree = TRUE

Overlap(p) ==
    /\ pass[p].ret = "none"
    /\ \E n \in Policies : FetchPolicy(p, n)

NextConc ==
    \E p \in Passes :
        \/ Overlap(p)
        \/ Steps(p)

SpecConc == InitConc /\ [][NextConc]_vars

(***************************************************************************)
(* Properties of overlapping passes.                                       *)
(***************************************************************************)
RecordedFailed(r, i) ==
    /\ Len(r.endpointStatuses) >= i
    /\ ~r.endpointStatuses[i].ready
    /\ r.endpointStatuses[i].message # ""

AllStepsDone(r, i) ==
    LET spec == r.policy.spec
        e    == spec.endpoints[i]
    IN  /\ Wrote(r, i, "Deployment", endpointResourceName(spec, e))
        /\ Wrote(r, i, "Service", endpointServiceName(spec, e))
        /\ Wrote(r, i, routeKind(e), endpointResourceName(spec, e))
        /\ IsSet(e.hpa) => Wrote(r, i, "HPA", endpointResourceName(spec, e))

(***************************************************************************)
(* C8: a child update rejected with a write conflict, because an           *)
(* overlapping pass wrote the object in between, is retried: it does not   *)
(* leave the endpoint recorded as not ready with an error message, and     *)
(* once the endpoint's status is recorded its remaining steps have run.    *)
(***************************************************************************)
C8_ConflictIsRetried ==
    \A p \in Passes : \A j \in 1..Len(pass[p].log) :
        (/\ pass[p].log[j].op = "update"
         /\ pass[p].log[j].kind \in KindSet
         /\ pass[p].log[j].res = "conflict")
            => /\ ~RecordedFailed(pass[p], pass[p].log[j].ep)
               /\ Len(pass[p].endpointStatuses) >= pass[p].log[j].ep
                     => AllStepsDone(pass[p], pass[p].log[j].ep)

(***************************************************************************)
(* C9: a create that finds the object already created by someone else      *)
(* since the pass's Get is taken as a transient conflict to retry, not as  *)
(* a fatal error of the endpoint.                                          *)
(***************************************************************************)
C9_DuplicateCreateIsRetried ==
    \A p \in Passes : \A j \in 1..Len(pass[p].log) :
        (/\ pass[p].log[j].op = "create"
         /\ pass[p].log[j].res = "exists")
            => ~RecordedFailed(pass[p], pass[p].log[j].ep)

(***************************************************************************)
(* SpecBuild: one pass, with every call succeeding, over a spec drawn from *)
(* a wide set of endpoint shapes (type, strategy, canaryWeight, hpa,       *)
(* replicas; values outside the schema's ranges included, since Validate   *)
(* is all that stands between them and the builders).  The pass starts on  *)
(* an empty cluster, with or without the main service, or on a cluster     *)
(* that holds children of this and of another endpoint.                    *)
(***************************************************************************)
BuildTypes == {"", "http", "grpc"}

BuildStrategies == {"", StrategyPrimary, StrategyCanary, "mirror"}

BuildWeights == {None, Some(1), Some(10), Some(100), Some(0), Some(150)}

BuildHPAs ==
    {None,
     Some([min |-> 2, max |-> 3, cpuTarget |-> Some(70), memoryTarget |-> None]),
     Some([min |-> 2, max |-> 10, cpuTarget |-> Some(70),
           memoryTarget |-> Some(80)]),
     Some([min |-> 1, max |-> 1, cpuTarget |-> None, memoryTarget |-> Some(80)]),
     Some([min |-> 1, max |-> 2, cpuTarget |-> Some(0), memoryTarget |-> None]),
     Some([min |-> 3, max |-> 5, cpuTarget |-> Some(50),
           memoryTarget |-> Some(0)]),
     Some([min |-> 1, max |-> 2, cpuTarget |-> None, memoryTarget |-> None])}

BuildReplicas == {None, Some(3)}

BuildSpecs ==
    {PolicySpec("a", <<[Endpoint("a", t, st, w, h) EXCEPT !.replicas = n]>>) :
        t \in BuildTypes, st \in BuildStrategies, w \in BuildWeights,
        h \in BuildHPAs, n \in BuildReplicas}

StartClusters(spec) ==
    {EmptyCluster,
     WithMainService(EmptyCluster, spec),
     WithMainService(LeftBy(PolicySpec("a", <<EpAhpa, EpB>>)), spec)}

InitBuild ==
    /\ policy \in [Policies -> {[spec |-> s, status |-> NoStatus] : s \in BuildSpecs}]
    /\ cluster \in StartClusters(policy["p"].spec)
    /\ pass = [p \in Passes |-> IdlePass]
    /\ faults = MaxFaults
    /\ changes = MaxSpecChanges
    /\ errorFree = TRUE

NextBuild ==
    \/ Overlap(1)
    \/ Steps(1)

SpecBuild == InitBuild /\ [][NextBuild]_vars

(***************************************************************************)
(* Properties of the builders, as the pass applies them.                   *)
(***************************************************************************)
NamesAndWeights(refs) ==
    [j \in 1..Len(refs) |-> <<refs[j].name, refs[j].weight>>]

(* The route of endpoint i that this pass has written, if it has. *)
WrittenRoutes(r, i) ==
    LET spec == r.policy.spec
        e    == spec.endpoints[i]
        name == endpointResourceName(spec, e)
    IN  {cluster[k][name][1] : k \in {l \in RouteKinds : Wrote(r, i, l, name)}}

(***************************************************************************)
(* C11: for strategy canary with canaryWeight w (5 when unset) the HTTP    *)
(* and the gRPC route builder give exactly two backends, the main service  *)
(* {appRef.name}-svc and then the endpoint service {appRef.name}-{id}-svc, *)
(* with weights 100 - w and w; so does every route the pass writes.        *)
(***************************************************************************)
C11_CanaryWeightLaw ==
    \A i \in 1..Len(policy["p"].spec.endpoints) :
        LET spec == policy["p"].spec
            e    == spec.endpoints[i]
            w    == IF e.canaryWeight = <<>> THEN 5 ELSE e.canaryWeight[1]
            law  == <<<<spec.appRef.name \o "-svc", 100 - w>>,
                      <<spec.appRef.name \o "-" \o e.id \o "-svc", w>>>>
        IN  e.strategy = "canary"
               => /\ NamesAndWeights(buildHTTPBackendRefs(spec, e)) = law
                  /\ NamesAndWeights(buildGRPCBackendRefs(spec, e)) = law
                  /\ law[1][2] + law[2][2] = 100
                  /\ \A route \in WrittenRoutes(Worker, i) :
                        NamesAndWeights(route.spec.backendRefs) = law

C11_Witness ==
    /\ policy["p"].spec.endpoints[1].strategy = "canary"
    /\ policy["p"].spec.endpoints[1].canaryWeight = <<>>
    /\ \E route \in WrittenRoutes(Worker, 1) :
          NamesAndWeights(route.spec.backendRefs) =
              <<<<"a-svc", 95>>, <<"a-a-svc", 5>>>>

(***************************************************************************)
(* C12: for strategy primary, for an unset strategy and for any other      *)
(* strategy string than canary, both route builders give exactly one       *)
(* backend, the endpoint service {appRef.name}-{id}-svc at weight 100, and *)
(* the pass makes no call on the main service.                             *)
(***************************************************************************)
C12_PrimaryLaw ==
    \A i \in 1..Len(policy["p"].spec.endpoints) :
        LET spec == policy["p"].spec
            e    == spec.endpoints[i]
            law  == <<<<spec.appRef.name \o "-" \o e.id \o "-svc", 100>>>>
        IN  e.strategy # "canary"
               => /\ NamesAndWeights(buildHTTPBackendRefs(spec, e)) = law
                  /\ NamesAndWeights(buildGRPCBackendRefs(spec, e)) = law
                  /\ \A route \in WrittenRoutes(Worker, i) :
                        NamesAndWeights(route.spec.backendRefs) = law
                  /\ \A j \in 1..Len(Worker.log) :
                        Worker.log[j].name # spec.appRef.name \o "-svc"

C12_Witness ==
    /\ policy["p"].spec.endpoints[1].strategy = "mirror"
    /\ cluster["Service"]["a-svc"] = <<>>
    /\ \E route \in WrittenRoutes(Worker, 1) :
          NamesAndWeights(route.spec.backendRefs) = <<<<"a-a-svc", 100>>>>

(***************************************************************************)
(* C13: at the end of every pass that gets past validation the Ready       *)
(* condition is True with reason AllEndpointsReady iff every endpoint      *)
(* status of the pass is ready; otherwise it is False with reason          *)
(* EndpointsNotReady and message "k/n endpoints ready", k the number of    *)
(* ready statuses and n the number of spec endpoints.                      *)
(***************************************************************************)
C13_ReadyCondition ==
    (Returned(Worker) /\ Valid(Worker.policy.spec))
        => LET st   == Worker.endpointStatuses
               n    == Len(Worker.policy.spec.endpoints)
               k    == Cardinality({j \in 1..Len(st) : st[j].ready})
               cond == Worker.policy.status.conditions
           IN  /\ Len(cond) = 1
               /\ cond[1].type = "Ready"
               /\ IF \A j \in 1..Len(st) : st[j].ready
                  THEN /\ cond[1].status = "True"
                       /\ cond[1].reason = "AllEndpointsReady"
                  ELSE /\ cond[1].status = "False"
                       /\ cond[1].reason = "EndpointsNotReady"
                       /\ cond[1].message =
                              Itoa(k) \o "/" \o Itoa(n) \o " endpoints ready"
               /\ Worker.ret = "ok" => policy["p"].status.conditions = cond

C13_Witness ==
    /\ Returned(Worker)
    /\ Worker.ret = "ok"
    /\ Len(Worker.endpointStatuses) = 2
    /\ ~Worker.endpointStatuses[1].ready
    /\ ~Worker.endpointStatuses[2].ready
    /\ policy["p"].status.conditions =
          <<[type |-> "Ready", status |-> "False",
             reason |-> "EndpointsNotReady",
             message |-> "0/2 endpoints ready"]>>

(***************************************************************************)
(* C14: every pass on an existing policy makes exactly one status write,   *)
(* and makes it as its last API call, whether all, some or none of the     *)
(* endpoints failed and whether validation passed or failed.               *)
(***************************************************************************)
StatusWrites(r) ==
    {j \in 1..Len(r.log) : /\ r.log[j].kind = "EndpointPolicyStatus"
                           /\ r.log[j].op = "update"}

C14_OneStatusWrite ==
    /\ Returned(Worker) => StatusWrites(Worker) = {Len(Worker.log)}
    /\ Worker.pc # "idle" => StatusWrites(Worker) = {}

C14_Witness ==
    /\ Returned(Worker)
    /\ Valid(Worker.policy.spec)
    /\ Len(Worker.policy.spec.endpoints) = 2
    /\ FailedEndpoints(Worker) = {1, 2}
    /\ StatusWrites(Worker) = {Len(Worker.log)}
    /\ Worker.log[Len(Worker.log)].res = "ok"

(***************************************************************************)
(* C15: a failure of a List of the policy's children or of a Delete of an  *)
(* undesired child during garbage collection propagates: the pass that     *)
(* met it returns an error to its caller instead of completing as a        *)
(* success.                                                                *)
(***************************************************************************)
GCFailures(r) ==
    {j \in 1..Len(r.log) : /\ r.log[j].op \in {"list", "delete"}
                           /\ r.log[j].res = "error"}

C15_GCFailurePropagates ==
    (/\ Worker.pc = "idle"
     /\ Worker.ret \in {"ok", "err"}
     /\ GCFailures(Worker) # {})
        => Worker.ret = "err"

(***************************************************************************)
(* C16: a pass returns an error to its caller iff its fetch of the policy  *)
(* failed with something other than not-found or its status write failed;  *)
(* endpoint failures, and a validation failure whose status write          *)
(* succeeds, end in a success.                                             *)
(***************************************************************************)
FetchFailed(r) == r.log[1].op = "get" /\ r.log[1].res = "error"

StatusWriteFailed(r) ==
    \E j \in StatusWrites(r) : r.log[j].res # "ok"

C16_ErrorIffFetchOrStatus ==
    (Worker.pc = "idle" /\ Worker.ret \in {"ok", "err"})
        => (Worker.ret = "err"
                <=> (FetchFailed(Worker) \/ StatusWriteFailed(Worker)))

C16_Witness ==
    /\ Worker.pc = "idle"
    /\ Worker.ret = "ok"
    /\ Worker.log[1].res = "notfound"
    /\ Worker.prevRet = "ok"
    /\ ~Worker.prevNoError

(* The child of the given kind of endpoint i that this pass has written. *)
WrittenChildren(r, i, kind) ==
    LET spec == r.policy.spec
        e    == spec.endpoints[i]
        name == IF kind = "Service" THEN endpointServiceName(spec, e)
                ELSE endpointResourceName(spec, e)
    IN  IF Wrote(r, i, kind, name) THEN {cluster[kind][name][1]} ELSE {}

(***************************************************************************)
(* C17: the workload's replica count is hpa.min whenever hpa is set (an    *)
(* explicit replicas value is then ignored), otherwise replicas if set,    *)
(* otherwise 1; in the workload built and in every workload the pass       *)
(* writes.                                                                 *)
(***************************************************************************)
C17_ReplicaLaw ==
    \A i \in 1..Len(policy["p"].spec.endpoints) :
        LET spec == policy["p"].spec
            e    == spec.endpoints[i]
            law  == IF e.hpa # <<>> THEN e.hpa[1].min
                    ELSE IF e.replicas # <<>> THEN e.replicas[1]
                         ELSE 1
        IN  /\ buildDeployment("p", spec, e).obj.spec.replicas = law
            /\ \A d \in WrittenChildren(Worker, i, "Deployment") :
                  d.spec.replicas = law

C17_Witness ==
    /\ policy["p"].spec.endpoints[1].replicas = <<3>>
    /\ policy["p"].spec.endpoints[1].hpa # <<>>
    /\ policy["p"].spec.endpoints[1].hpa[1].min = 2
    /\ \E d \in WrittenChildren(Worker, 1, "Deployment") : d.spec.replicas = 2

(***************************************************************************)
(* C18: for every hpa value the autoscaler of a pass has min and max       *)
(* copied verbatim, targets the workload {appRef.name}-{id}, and has one   *)
(* utilization metric per non-nil target among cpuTarget and memoryTarget, *)
(* with that target's value, and no other metric.                          *)
(***************************************************************************)
MetricLaw(hpa) ==
    (IF hpa.cpuTarget # <<>>
     THEN <<[name |-> "cpu", type |-> "Utilization",
             averageUtilization |-> hpa.cpuTarget[1]]>>
     ELSE <<>>)
    \o (IF hpa.memoryTarget # <<>>
        THEN <<[name |-> "memory", type |-> "Utilization",
                averageUtilization |-> hpa.memoryTarget[1]]>>
        ELSE <<>>)

C18_HPAMetricLaw ==
    \A i \in 1..Len(policy["p"].spec.endpoints) :
        LET spec == policy["p"].spec
            e    == spec.endpoints[i]
        IN  \A h \in WrittenChildren(Worker, i, "HPA") :
                /\ h.spec.minReplicas = e.hpa[1].min
                /\ h.spec.maxReplicas = e.hpa[1].max
                /\ h.spec.scaleTargetRef = spec.appRef.name \o "-" \o e.id
                /\ h.spec.metrics = MetricLaw(e.hpa[1])

(* The children of endpoint e, each with the object its builder gives. *)
DesiredChildren(policyName, spec, e) ==
    {[kind |-> "Deployment", name |-> endpointResourceName(spec, e),
      desired |-> buildDeployment(policyName, spec, e).obj],
     [kind |-> "Service", name |-> endpointServiceName(spec, e),
      desired |-> buildService(policyName, spec, e)],
     [kind |-> routeKind(e), name |-> endpointResourceName(spec, e),
      desired |-> IF routeKind(e) = "GRPCRoute"
                  THEN buildGRPCRoute(policyName, spec, e)
                  ELSE buildHTTPRoute(policyName, spec, e)]}
    \cup (IF e.hpa # <<>>
          THEN {[kind |-> "HPA", name |-> endpointResourceName(spec, e),
                 desired |-> buildHPA(policyName, spec, e)]}
          ELSE {})

(***************************************************************************)
(* C19: a child of any kind that existed when an error-free pass began,    *)
(* however its spec or labels had been changed since it was written, has   *)
(* after the pass the whole spec and the labels its builder gives: no      *)
(* field of the old spec survives.                                         *)
(***************************************************************************)
C19_ExistingChildReplaced ==
    (/\ errorFree
     /\ Returned(Worker)
     /\ Worker.ret = "ok"
     /\ NoErrorSoFar(Worker)
     /\ Valid(Worker.policy.spec))
        => \A i \in 1..Len(Worker.policy.spec.endpoints) :
              \A c \in DesiredChildren(Worker.policyName, Worker.policy.spec,
                                       Worker.policy.spec.endpoints[i]) :
                 (/\ Worker.cluster0[c.kind][c.name] # <<>>
                  /\ cluster[c.kind][c.name] # <<>>)
                    => /\ cluster[c.kind][c.name][1].spec = c.desired.spec
                       /\ cluster[c.kind][c.name][1].labels = c.desired.labels

(***************************************************************************)
(* C20: every child a pass creates or updates carries after the write the  *)
(* labels policy = the policy's name and endpoint = the endpoint's id,     *)
(* with the application name, the component and managed-by; the Service's  *)
(* selector and the Deployment's selector and pod-template labels equal    *)
(* that label set.                                                         *)
(***************************************************************************)
LabelLaw(policyName, spec, e) ==
    [name      |-> spec.appRef.name,
     component |-> e.id,
     managedBy |-> "endpoint-scaler",
     policy    |-> policyName,
     endpoint  |-> e.id]

C20_WrittenChildLabels ==
    [][LET r == pass'[1]
           n == Len(r.log)
       IN  (/\ n = Len(Worker.log) + 1
            /\ r.log[n].op \in {"create", "update"}
            /\ r.log[n].kind \in KindSet
            /\ r.log[n].res = "ok")
              => LET kind == r.log[n].kind
                     obj  == cluster'[kind][r.log[n].name][1]
                     law  == LabelLaw("p", r.policy.spec,
                                      r.policy.spec.endpoints[r.log[n].ep])
                 IN  /\ obj.labels = law
                     /\ kind = "Service" => obj.spec.selector = law
                     /\ kind = "Deployment" => /\ obj.spec.selector = law
                                               /\ obj.spec.template = law]_vars

C20_Witness ==
    LET n == Len(Worker.log)
    IN  /\ n > 1
        /\ Worker.log[n].op = "update"
        /\ Worker.log[n].kind = "Service"
        /\ Worker.log[n].res = "ok"
        /\ Worker.cluster0["Service"][Worker.log[n].name][1].labels = NoLabels
        /\ cluster["Service"][Worker.log[n].name][1].labels =
              LabelLaw("p", policy["p"].spec,
                       policy["p"].spec.endpoints[Worker.log[n].ep])
        /\ cluster["Service"][Worker.log[n].name][1].spec.selector =
              cluster["Service"][Worker.log[n].name][1].labels

(***************************************************************************)
(* C21: child naming is collision-free: a child that was written for the   *)
(* pair (appRef.name, endpoint id), as its labels record, never has the    *)
(* name that endpointResourceName (for a Service, endpointServiceName)     *)
(* gives to a different pair of the policy's spec.                         *)
(***************************************************************************)
C21_NamesCollisionFree ==
    \A kind \in KindSet, name \in Names :
        (/\ cluster[kind][name] # <<>>
         /\ cluster[kind][name][1].labels.managedBy = "endpoint-scaler")
            => \A i \in 1..Len(policy["p"].spec.endpoints) :
                  LET spec   == policy["p"].spec
                      e      == spec.endpoints[i]
                      labels == cluster[kind][name][1].labels
                  IN  <<labels.name, labels.endpoint>>
                          # <<spec.appRef.name, e.id>>
                        => name # (IF kind = "Service"
                                   THEN endpointServiceName(spec, e)
                                   ELSE endpointResourceName(spec, e))

(***************************************************************************)
(* SpecValidate: one pass over each spec of a family that violates the     *)
(* validation rules one at a time and several at once (and over valid      *)
(* specs), from an empty cluster or from one an earlier spec version left. *)
(***************************************************************************)
ValAppRefs ==
    {[name |-> n, image |-> im, port |-> pt, containerPort |-> cp] :
        n \in {"a", ""}, im \in {"img:v1", ""}, pt \in {0, -1},
        cp \in {0, -1}}

ValGatewayRefs == {[name |-> "gw"], [name |-> ""]}

GoodResources ==
    [cpuLimit |-> "500m", cpuRequest |-> "", memLimit |-> "512Mi",
     memRequest |-> "1Gi"]

BadResources ==
    [cpuLimit |-> "lots", cpuRequest |-> "500m", memLimit |-> "",
     memRequest |-> "1 Gi"]

ValHPAs ==
    {[min |-> 1, max |-> 2, cpuTarget |-> Some(70), memoryTarget |-> None],
     [min |-> 0, max |-> 2, cpuTarget |-> Some(70), memoryTarget |-> None],
     [min |-> 1, max |-> 0, cpuTarget |-> None, memoryTarget |-> Some(80)],
     [min |-> 3, max |-> 2, cpuTarget |-> Some(70), memoryTarget |-> Some(80)],
     [min |-> 1, max |-> 2, cpuTarget |-> None, memoryTarget |-> None],
     [min |-> 0, max |-> -1, cpuTarget |-> None, memoryTarget |-> None]}

ValEndpoints ==
    {EpA, EpB, EpAgrpc, EpNoPath,
     [EpA EXCEPT !.id = ""],
     [EpA EXCEPT !.type = ""],
     [EpNoPath EXCEPT !.type = ""],
     [EpNoPath EXCEPT !.type = "tcp"],
     [EpAgrpc EXCEPT !.match.service = ""],
     [EpAgrpc EXCEPT !.match.service = "", !.match.method = ""],
     [EpA EXCEPT !.replicas = Some(0)],
     [EpA EXCEPT !.replicas = Some(3)],
     [EpA EXCEPT !.resources = Some(GoodResources)],
     [EpA EXCEPT !.resources = Some(BadResources)],
     [EpNoPath EXCEPT !.id = "", !.replicas = Some(-1),
                      !.resources = Some(BadResources)]}
    \cup {[EpA EXCEPT !.hpa = Some(h)] : h \in ValHPAs}

ValPairs == {EpA, EpB, EpNoPath, [EpA EXCEPT !.id = ""],
             [EpA EXCEPT !.replicas = Some(0)]}

ValEndpointLists ==
    {<<>>}
    \cup {<<e>> : e \in ValEndpoints}
    \cup {<<e1, e2>> : e1 \in ValPairs, e2 \in ValPairs}
    \cup {<<EpA, EpA, EpA>>, <<EpA, EpB, EpA>>, <<EpB, EpA, EpB>>}

ValSpecs ==
    {[appRef |-> a, gatewayRef |-> g, endpoints |-> l] :
        a \in ValAppRefs, g \in ValGatewayRefs, l \in ValEndpointLists}

ValClusters(spec) ==
    IF spec.appRef.name = "a"
    THEN {EmptyCluster,
          WithMainService(LeftBy(PolicySpec("a", <<EpAhpa, EpB>>)), spec)}
    ELSE {EmptyCluster}

InitValidate ==
    /\ policy \in [Policies -> {[spec |-> s, status |-> NoStatus] : s \in ValSpecs}]
    /\ cluster \in ValClusters(policy["p"].spec)
    /\ pass = [p \in Passes |-> IdlePass]
    /\ faults = MaxFaults
    /\ changes = MaxSpecChanges
    /\ errorFree = TRUE

NextValidate ==
    \/ Overlap(1)
    \/ Steps(1)

SpecValidate == InitValidate /\ [][NextValidate]_vars

(* The conditions of the validation rules that a spec violates, each named *)
(* by its field; an id that occurs again counts at each later occurrence.  *)
ViolatedConditions(spec) ==
    {<<0, f>> : f \in
        {f \in {"appRef.name"} : spec.appRef.name = ""}
        \cup {f \in {"appRef.image"} : spec.appRef.image = ""}
        \cup {f \in {"appRef.port"} : ~(spec.appRef.port >= 0)}
        \cup {f \in {"appRef.containerPort"} : ~(spec.appRef.containerPort >= 0)}
        \cup {f \in {"gatewayRef.name"} : spec.gatewayRef.name = ""}
        \cup {f \in {"endpoints"} : Len(spec.endpoints) = 0}}
    \cup UNION {
        LET e == spec.endpoints[i]
        IN  {<<i, f>> : f \in
               {f \in {"id"} : e.id = ""}
               \cup {f \in {"duplicate"} :
                       \E j \in 1..(i - 1) : spec.endpoints[j].id = e.id}
               \cup {f \in {"path"} : e.type \in {"", "http"} /\ e.match.path = ""}
               \cup {f \in {"service"} : e.type = "grpc" /\ e.match.service = ""}
               \cup {f \in {"method"} : e.type = "grpc" /\ e.match.method = ""}
               \cup {f \in {"replicas"} :
                       e.replicas # <<>> /\ ~(e.replicas[1] >= 1)}
               \cup (IF e.resources = <<>> THEN {}
                     ELSE {f \in {"cpuLimit", "cpuRequest", "memLimit",
                                  "memRequest"} :
                             /\ e.resources[1][f] # ""
                             /\ ~ParsesAsQuantity(e.resources[1][f])})
               \cup (IF e.hpa = <<>> THEN {}
                     ELSE {f \in {"hpa.min"} : ~(e.hpa[1].min >= 1)}
                          \cup {f \in {"hpa.max"} : ~(e.hpa[1].max >= 1)}
                          \cup {f \in {"hpa.max>=min"} :
                                  ~(e.hpa[1].max >= e.hpa[1].min)}
                          \cup {f \in {"hpa.targets"} :
                                  /\ e.hpa[1].cpuTarget = <<>>
                                  /\ e.hpa[1].memoryTarget = <<>>})}
        : i \in 1..Len(spec.endpoints)}

(***************************************************************************)
(* C22: Validate accepts a spec iff it violates none of the rules (appRef  *)
(* name and image non-empty, ports >= 0, gatewayRef name non-empty, at     *)
(* least one endpoint, ids non-empty and pairwise distinct, match fields   *)
(* of the type present, replicas >= 1 when set, quantities parse, hpa min  *)
(* and max >= 1, max >= min, a target set); it reports one field error per *)
(* violation, and a pass goes on past validation iff the spec is accepted. *)
(***************************************************************************)
C22_ValidateLaw ==
    LET spec == policy["p"].spec
    IN  /\ Validate(spec) = <<>> <=> ViolatedConditions(spec) = {}
        /\ Len(Validate(spec)) = Cardinality(ViolatedConditions(spec))
        /\ Worker.pc = "validation" => ViolatedConditions(spec) # {}
        /\ Worker.pc \notin {"idle", "validation"}
              => ViolatedConditions(spec) = {}

C22_Witness ==
    /\ Worker.pc = "validation"
    /\ Cardinality(ViolatedConditions(policy["p"].spec)) = 9
    /\ Len(Validate(policy["p"].spec)) = 9

(* The field of the id of the endpoint at position i (positions of the    *)
(* field paths count from 0).                                              *)
IdField(i) ==
    "spec.endpoints[" \o <<"0", "1", "2">>[i] \o "].id"

DuplicateErrors(spec) ==
    {j \in 1..Len(Validate(spec)) : Validate(spec)[j].type = "Duplicate"}

(***************************************************************************)
(* C23: for an endpoint list in which an id occurs k >= 2 times Validate   *)
(* reports exactly k - 1 duplicate-value errors for that id: one at the    *)
(* index of each occurrence after the first, none at the first.            *)
(***************************************************************************)
C23_DuplicateErrors ==
    LET spec == policy["p"].spec
        errs == Validate(spec)
        later == {i \in 1..Len(spec.endpoints) :
                     \E j \in 1..(i - 1) :
                         spec.endpoints[j].id = spec.endpoints[i].id}
    IN  /\ \A i \in 1..Len(spec.endpoints) :
              Cardinality({j \in DuplicateErrors(spec) :
                              errs[j].field = IdField(i)})
                  = IF i \in later THEN 1 ELSE 0
        /\ \A j \in DuplicateErrors(spec) :
              \E i \in later :
                  /\ errs[j].field = IdField(i)
                  /\ errs[j].text = IdField(i) \o ": Duplicate value: \""
                                       \o spec.endpoints[i].id \o "\""
        /\ \A i \in 1..Len(spec.endpoints) :
              LET k == Cardinality({j \in 1..Len(spec.endpoints) :
                          spec.endpoints[j].id = spec.endpoints[i].id})
              IN  Cardinality({j \in DuplicateErrors(spec) :
                      \E l \in 1..Len(spec.endpoints) :
                          /\ spec.endpoints[l].id = spec.endpoints[i].id
                          /\ errs[j].field = IdField(l)}) = k - 1

C23_Witness ==
    /\ Worker.pc = "validation"
    /\ Len(policy["p"].spec.endpoints) = 3
    /\ \A i \in 1..3 : policy["p"].spec.endpoints[i].id = "a"
    /\ {Validate(policy["p"].spec)[j].field :
           j \in DuplicateErrors(policy["p"].spec)}
          = {"spec.endpoints[1].id", "spec.endpoints[2].id"}

(***************************************************************************)
(* The SDK's request-time Guard, run in a container of a workload: it      *)
(* reads the guardrail variable from the container's environment and       *)
(* serves the request with the handler when the variable is unset or       *)
(* equals the handler's endpoint id, and answers 503 otherwise.            *)
(***************************************************************************)
Getenv(container, name) ==
    IF container.env.name = name THEN container.env.value ELSE ""

Guard(endpointID, container) ==
    LET guardrail == Getenv(container, GuardrailEnvVar)
    IN  IF guardrail = "" THEN "handler"
        ELSE IF guardrail = endpointID THEN "handler"
             ELSE "503"

GuardIds == {"a", "a-a", "b"}

(***************************************************************************)
(* C24: the variable the workload builder sets to the endpoint id is the   *)
(* variable Guard reads (ENDPOINTSCALER_GUARDRAIL): in a managed workload  *)
(* of endpoint X, Guard(X) serves requests and Guard(Y) answers 503 for    *)
(* every Y other than X.                                                   *)
(***************************************************************************)
C24_GuardReadsBuilderVariable ==
    \A name \in Names :
        (/\ cluster["Deployment"][name] # <<>>
         /\ cluster["Deployment"][name][1].labels.managedBy = "endpoint-scaler")
            => LET d == cluster["Deployment"][name][1]
                   X == d.labels.endpoint
               IN  /\ d.spec.container.env.name = "ENDPOINTSCALER_GUARDRAIL"
                   /\ d.spec.container.env.value = X
                   /\ Guard(X, d.spec.container) = "handler"
                   /\ \A Y \in GuardIds \ {X} :
                         Guard(Y, d.spec.container) = "503"

(* The orderings of an endpoint list. *)
Orderings(endpoints) ==
    {[i \in 1..Len(endpoints) |-> endpoints[f[i]]] :
        f \in Permutations(1..Len(endpoints))}

(***************************************************************************)
(* C25: endpoint order is irrelevant to the converged cluster: what an     *)
(* error-free pass over a valid spec leaves is, for every ordering of the  *)
(* spec's endpoint list, what an error-free pass over that ordering leaves *)
(* from the same initial cluster: the same children with the same          *)
(* contents, and the same endpoint statuses but for their order.           *)
(***************************************************************************)
C25_EndpointOrderIrrelevant ==
    (/\ Returned(Worker)
     /\ Worker.ret = "ok"
     /\ NoErrorSoFar(Worker)
     /\ Valid(Worker.policy.spec))
        => \A l \in Orderings(Worker.policy.spec.endpoints) :
              LET other == FullPass(Worker.cluster0, "p",
                                    [Worker.policy.spec EXCEPT !.endpoints = l])
              IN  /\ other.cluster = cluster
                  /\ Range(other.status.endpointStatuses)
                        = Range(policy["p"].status.endpointStatuses)
                  /\ other.status.conditions = policy["p"].status.conditions

C25_Witness ==
    /\ Returned(Worker)
    /\ Worker.ret = "ok"
    /\ NoErrorSoFar(Worker)
    /\ Worker.policy.spec.endpoints = <<EpA, EpB>>
    /\ Owned(Worker.cluster0, "p") # {}
    /\ cluster = FullPass(Worker.cluster0, "p",
                          PolicySpec("a", <<EpB, EpA>>)).cluster
    /\ policy["p"].status.endpointStatuses[1].id = "a"
    /\ FullPass(Worker.cluster0, "p", PolicySpec("a", <<EpB, EpA>>))
           .status.endpointStatuses[1].id = "a-a"

(* The calls of the pass made for endpoint i, and the step each belongs to *)
(* (1 workload, 2 service, 3 route with its main service check, 4          *)
(* autoscaler).                                                            *)
CallsOf(r, i) == {j \in 1..Len(r.log) : r.log[j].ep = i}

StepOf(r, j) ==
    LET c == r.log[j]
    IN  CASE c.kind = "Deployment" -> 1
          [] c.kind = "Service"
               /\ c.name # r.policy.spec.appRef.name \o "-svc" -> 2
          [] c.kind = "Service"
               /\ c.name = r.policy.spec.appRef.name \o "-svc" -> 3
          [] c.kind \in {"HTTPRoute", "GRPCRoute"} -> 3
          [] c.kind = "HPA" -> 4

StepDone(r, i, step) ==
    \E j \in CallsOf(r, i) :
        /\ StepOf(r, j) = step
        /\ r.log[j].op \in {"create", "update"}
        /\ r.log[j].res = "ok"

(***************************************************************************)
(* C26: within one endpoint the steps run in the order workload, service,  *)
(* route, autoscaler (the last only if hpa is set), each after the one     *)
(* before it succeeded; the first call that fails is the endpoint's last   *)
(* call; and an endpoint is recorded ready only if none of its calls       *)
(* failed and every step of it was done.                                   *)
(***************************************************************************)
C26_StepOrder ==
    \A i \in 1..Len(Worker.policy.spec.endpoints) :
        LET calls == CallsOf(Worker, i)
            e     == Worker.policy.spec.endpoints[i]
        IN  /\ \A j \in calls, l \in calls :
                  j < l => /\ StepOf(Worker, j) <= StepOf(Worker, l)
                           /\ ~IsError(Worker.log[j].res)
            /\ \A j \in calls :
                  /\ StepOf(Worker, j) > 1
                        => StepDone(Worker, i, StepOf(Worker, j) - 1)
                  /\ StepOf(Worker, j) = 4 => e.hpa # <<>>
            /\ (i <= Len(Worker.endpointStatuses)
                    /\ Worker.endpointStatuses[i].ready)
                  => /\ \A j \in calls : ~IsError(Worker.log[j].res)
                     /\ \A step \in 1..3 : StepDone(Worker, i, step)
                     /\ e.hpa # <<>> => StepDone(Worker, i, 4)

C26_Witness ==
    /\ Len(Worker.policy.spec.endpoints) >= 1
    /\ Worker.policy.spec.endpoints[1].hpa # <<>>
    /\ StepDone(Worker, 1, 1)
    /\ \E j \in CallsOf(Worker, 1) :
          /\ StepOf(Worker, j) = 2
          /\ Worker.log[j].res = "error"
    /\ Len(Worker.endpointStatuses) >= 1
    /\ ~Worker.endpointStatuses[1].ready
    /\ Worker.pc = "idle"
    /\ \A j \in CallsOf(Worker, 1) : StepOf(Worker, j) <= 2

C28_StatusPerEndpoint ==
    (Returned(Worker) /\ Validate(Worker.policy.spec) = <<>>)
        => LET st   == Worker.policy.status
               eps  == Worker.policy.spec.endpoints
           IN  /\ st.endpointCount = Len(eps)
               /\ Len(st.endpointStatuses) = Len(eps)
               /\ \A i \in 1..Len(eps) : st.endpointStatuses[i].id = eps[i].id
               /\ Worker.ret = "ok" => policy["p"].status = st

C28_Witness ==
    /\ Returned(Worker)
    /\ Worker.ret = "ok"
    /\ Worker.policy.spec.endpoints = <<EpA, EpB>>
    /\ policy["p"].status.endpointCount = 2
    /\ ~policy["p"].status.endpointStatuses[1].ready
    /\ policy["p"].status.endpointStatuses[1].id = "a"
    /\ policy["p"].status.endpointStatuses[2].ready
    /\ policy["p"].status.endpointStatuses[2].id = "a-a"

(***************************************************************************)
(* C29: if the spec passes Validate, every API call of the pass succeeds   *)
(* and the main service exists for every canary endpoint, then the pass,   *)
(* whatever cluster state it began in, ends with every endpoint status     *)
(* ready and the policy condition Ready = True with reason                 *)
(* AllEndpointsReady.                                                      *)
(***************************************************************************)
AllCallsSucceeded(r) ==
    \A j \in 1..Len(r.log) : r.log[j].res \in {"ok", "absent"}

MainServiceThere(r) ==
    (\E i \in 1..Len(r.policy.spec.endpoints) :
        r.policy.spec.endpoints[i].strategy = "canary")
      => r.cluster0["Service"][r.policy.spec.appRef.name \o "-svc"] # <<>>

C29_CleanPassIsReady ==
    (/\ Returned(Worker)
     /\ Validate(Worker.policy.spec) = <<>>
     /\ AllCallsSucceeded(Worker)
     /\ MainServiceThere(Worker))
        => LET st == policy["p"].status
           IN  /\ Len(st.endpointStatuses) = Len(Worker.policy.spec.endpoints)
               /\ \A i \in 1..Len(st.endpointStatuses) :
                     st.endpointStatuses[i].ready
               /\ Len(st.conditions) = 1
               /\ st.conditions[1].type = "Ready"
               /\ st.conditions[1].status = "True"
               /\ st.conditions[1].reason = "AllEndpointsReady"

C29_Witness ==
    /\ Returned(Worker)
    /\ AllCallsSucceeded(Worker)
    /\ Worker.policy.spec.endpoints = <<EpA, EpB>>
    /\ Worker.cluster0["Service"]["a-svc"] # <<>>
    /\ Worker.cluster0["Service"]["a-a-svc"] # <<>>
    /\ Worker.cluster0["Service"]["a-a-svc"][1].spec.type = "NodePort"
    /\ Worker.cluster0["Deployment"]["a-a-a"] = <<>>
    /\ policy["p"].status.conditions[1].reason = "AllEndpointsReady"
    /\ policy["p"].status.endpointStatuses[2].ready

(***************************************************************************)
(* C30: when two passes for the same policy and the same valid spec        *)
(* overlap, then under every interleaving of their calls no child of an    *)
(* endpoint of the spec is ever deleted, and when both passes have ended   *)
(* the children and their contents are what a single error-free pass       *)
(* produces from the cluster the passes began on.                          *)
(***************************************************************************)
BothEnded(ps) ==
    \A p \in Passes : ps[p].pc = "idle" /\ ps[p].ret \in {"ok", "err"}

C30_OverlapConverges ==
    [][(/\ Validate(policy["p"].spec) = <<>>
        /\ \A p \in Passes : pass[p].log # <<>>)
          => /\ \A k \in KindSet, m \in Names :
                   (cluster[k][m] # <<>> /\ cluster'[k][m] = <<>>)
                      => <<k, m>> \notin Expected(policy["p"].spec)
             /\ BothEnded(pass')
                   => cluster' \in
                         {FullPass(pass'[p].cluster0, "p",
                                   policy["p"].spec).cluster : p \in Passes}
      ]_vars

(* The pass has created or updated the object itself. *)
WroteItself(r, kind, name) ==
    \E j \in 1..Len(r.log) :
        /\ r.log[j].op \in {"create", "update"}
        /\ r.log[j].kind = kind
        /\ r.log[j].name = name
        /\ r.log[j].res = "ok"

(***************************************************************************)
(* C31: the garbage collection of a pass deletes only objects of the lists *)
(* taken before the endpoint loop whose listed endpoint label is not an id *)
(* of the spec; hence a pass never deletes an object it created or updated *)
(* itself, and never an object that lacks the policy's ownership labels    *)
(* (such as the main service).                                             *)
(***************************************************************************)
C31_GCSparesOwnWrites ==
    [][\A k \in KindSet, m \in Names :
          (/\ Worker.pc = "gc"
           /\ errorFree
           /\ cluster[k][m] # <<>>
           /\ cluster'[k][m] = <<>>)
             => /\ \E it \in Worker.lists[k] :
                      /\ it.name = m
                      /\ it.eid \notin SpecIds(Worker.policy.spec)
                /\ ~WroteItself(Worker, k, m)
                /\ cluster[k][m][1].labels.policy = "p"
                /\ cluster[k][m][1].labels.managedBy = "endpoint-scaler"
                /\ <<k, m>> # <<"Service", mainServiceName(Worker.policy.spec)>>
      ]_vars

(* The owned objects of a kind whose endpoint label is the given id. *)
OwnedOf(cl, policyName, kind, id) ==
    {m \in Names : /\ <<kind, m>> \in Owned(cl, policyName)
                   /\ cl[kind][m][1].labels.endpoint = id}

(***************************************************************************)
(* C33: after an error-free pass an owned autoscaler exists for an         *)
(* endpoint of the spec exactly when the endpoint has an hpa block; when   *)
(* the block is dropped from an endpoint that stays in the spec, the next  *)
(* pass deletes the autoscaler.                                            *)
(***************************************************************************)
C33_HPAIffBlock ==
    (/\ errorFree
     /\ Returned(Worker)
     /\ Clean(Worker)
     /\ Valid(policy["p"].spec))
        => \A j \in 1..Len(policy["p"].spec.endpoints) :
              LET e == policy["p"].spec.endpoints[j]
              IN  OwnedOf(cluster, "p", "HPA", e.id) # {} <=> IsSet(e.hpa)

(* The owned routes, of either kind, whose endpoint label is the given id. *)
OwnedRoutes(cl, policyName, id) ==
    {<<k, m>> \in {"HTTPRoute", "GRPCRoute"} \X Names :
        m \in OwnedOf(cl, policyName, k, id)}

(***************************************************************************)
(* C34: after an error-free pass every endpoint of the spec has exactly    *)
(* one owned route, and it is of the kind of the endpoint's current type;  *)
(* when the type of an endpoint is switched, the next pass removes the     *)
(* route of the old kind.                                                  *)
(***************************************************************************)
C34_OneRouteOfCurrentKind ==
    (/\ errorFree
     /\ Returned(Worker)
     /\ Clean(Worker)
     /\ Valid(policy["p"].spec))
        => \A j \in 1..Len(policy["p"].spec.endpoints) :
              LET e == policy["p"].spec.endpoints[j]
              IN  OwnedRoutes(cluster, "p", e.id)
                     = {<<routeKind(e), endpointResourceName(policy["p"].spec, e)>>}

(***************************************************************************)
(* C35: for every spec that Validate accepts, whatever its canaryWeight,   *)
(* every backend weight of every route a pass writes lies in 0..100.       *)
(***************************************************************************)
C35_WeightsInRange ==
    Valid(policy["p"].spec)
        => \A i \in 1..Len(policy["p"].spec.endpoints) :
              \A route \in WrittenRoutes(Worker, i) :
                 \A j \in 1..Len(route.spec.backendRefs) :
                    route.spec.backendRefs[j].weight \in 0..100

(***************************************************************************)
(* C36: every autoscaler a pass writes has at least one metric, for any    *)
(* spec Validate accepts whose endpoint has an hpa block, targets of 0 or  *)
(* below included.                                                         *)
(***************************************************************************)
C36_HPAHasMetric ==
    Valid(policy["p"].spec)
        => \A i \in 1..Len(policy["p"].spec.endpoints) :
              \A h \in WrittenChildren(Worker, i, "HPA") :
                 Len(h.spec.metrics) >= 1

(***************************************************************************)
(* C37: in every route a pass writes, the port of the backend reference to *)
(* the endpoint's service equals the port the endpoint's Service exposes,  *)
(* for http and for grpc endpoints, with appRef.port set or left 0.        *)
(***************************************************************************)
C37_BackendPortIsServicePort ==
    \A i \in 1..Len(policy["p"].spec.endpoints) :
        LET spec == policy["p"].spec
            e    == spec.endpoints[i]
        IN  \A route \in WrittenRoutes(Worker, i) :
               \A svc \in WrittenChildren(Worker, i, "Service") :
                  \A j \in 1..Len(route.spec.backendRefs) :
                     route.spec.backendRefs[j].name
                           = spec.appRef.name \o "-" \o e.id \o "-svc"
                        => route.spec.backendRefs[j].port = svc.spec.port

(***************************************************************************)
(* C38: the validator and the route step agree on the endpoint type: for   *)
(* any type string, every endpoint of an accepted spec that is converged   *)
(* as an HTTP route has a non-empty match.path, and every one converged as *)
(* a gRPC route has a non-empty match.service and match.method.            *)
(***************************************************************************)
C38_RouteMatchValidated ==
    Valid(policy["p"].spec)
        => \A i \in 1..Len(policy["p"].spec.endpoints) :
              LET e == policy["p"].spec.endpoints[i]
              IN  /\ \A route \in WrittenChildren(Worker, i, "HTTPRoute") :
                        /\ e.match.path # ""
                        /\ route.spec.match.value # ""
                  /\ \A route \in WrittenChildren(Worker, i, "GRPCRoute") :
                        /\ e.match.service # "" /\ e.match.method # ""
                        /\ route.spec.match.service # ""
                        /\ route.spec.match.method # ""

MainBackedRouteWrites(r, i) ==
    LET spec == r.policy.spec
        e    == spec.endpoints[i]
    IN  {j \in CallsOf(r, i) :
            /\ r.log[j].op \in {"create", "update"}
            /\ r.log[j].kind \in {"HTTPRoute", "GRPCRoute"}
            /\ LET refs == IF r.log[j].kind = "GRPCRoute"
                           THEN buildGRPCBackendRefs(spec, e)
                           ELSE buildHTTPBackendRefs(spec, e)
               IN  \E l \in 1..Len(refs) :
                      refs[l].name = spec.appRef.name \o "-svc"}

(***************************************************************************)
(* C40: a route that names the main service as a backend is created or     *)
(* updated only after the same pass has fetched that service successfully; *)
(* the fetch comes before the route write and after the successful writes  *)
(* of the endpoint's workload and service.                                 *)
(***************************************************************************)
C40_MainServiceCheckedBeforeRoute ==
    \A i \in 1..Len(Worker.policy.spec.endpoints) :
        \A j \in MainBackedRouteWrites(Worker, i) :
            \E g \in CallsOf(Worker, i) :
                /\ g < j
                /\ Worker.log[g].op = "get"
                /\ Worker.log[g].kind = "Service"
                /\ Worker.log[g].name = Worker.policy.spec.appRef.name \o "-svc"
                /\ Worker.log[g].res = "ok"
                /\ \A l \in CallsOf(Worker, i) :
                      Worker.log[l].kind \in {"HTTPRoute", "GRPCRoute"} => g < l
                /\ \E d \in CallsOf(Worker, i), v \in CallsOf(Worker, i) :
                      /\ d < v /\ v < g
                      /\ Worker.log[d].kind = "Deployment"
                      /\ Worker.log[d].op \in {"create", "update"}
                      /\ Worker.log[d].res = "ok"
                      /\ Worker.log[v].kind = "Service"
                      /\ Worker.log[v].name
                            = Worker.policy.spec.appRef.name \o "-"
                                 \o Worker.policy.spec.endpoints[i].id \o "-svc"
                      /\ Worker.log[v].op \in {"create", "update"}
                      /\ Worker.log[v].res = "ok"

C40_Witness ==
    /\ Returned(Worker)
    /\ \E i \in 1..Len(Worker.policy.spec.endpoints) :
          /\ \E j \in MainBackedRouteWrites(Worker, i) : Worker.log[j].res = "ok"
          /\ \E route \in WrittenRoutes(Worker, i) :
                route.spec.backendRefs[1].name = "a-svc"

(***************************************************************************)
(* SpecShared: two policies of one namespace, reconciled by passes that    *)
(* run one after another in any order, over a cluster that an earlier      *)
(* version of the first policy may have filled.  The policies may name the *)
(* same app and the same endpoint ids.                                     *)
(***************************************************************************)
SharedPolicies == {"p", "p2"}

SharedSpecs ==
    {PolicySpec("a", <<EpA>>),
     PolicySpec("a", <<EpB>>),
     PolicySpec("a", <<EpNoPath, EpB>>)}

InitShared ==
    /\ policy \in [SharedPolicies ->
                      {[spec |-> s, status |-> NoStatus] : s \in SharedSpecs}]
    /\ \E spec0 \in SharedSpecs :
          cluster \in {LeftBy(spec0),
                       WithMainService(LeftBy(spec0), policy["p"].spec)}
    /\ pass = [p \in Passes |-> IdlePass]
    /\ faults = MaxFaults
    /\ changes = MaxSpecChanges
    /\ errorFree = TRUE

NextPass(p) == \E n \in SharedPolicies : FetchPolicy(p, n)

NextShared ==
    \/ NextPass(1)
    \/ Steps(1)

SpecShared == InitShared /\ [][NextShared]_vars

(***************************************************************************)
(* C32: a pass for one policy never updates, relabels or deletes a child   *)
(* whose policy label names another policy of the namespace, also when the *)
(* two policies use the same appRef.name and an equal endpoint id; so      *)
(* alternating passes of the two reach a state neither changes any more.   *)
(***************************************************************************)
C32_OtherPolicysChildrenKept ==
    [][\A k \in KindSet, m \in Names :
          (/\ Worker.pc # "idle"
           /\ cluster[k][m] # <<>>
           /\ cluster[k][m][1].labels.policy \in SharedPolicies
           /\ cluster[k][m][1].labels.policy # Worker.policyName)
             => cluster'[k][m] = cluster[k][m]
      ]_vars

=============================================================================
